---------------------------- MODULE Spec2Model ----------------------------
(***************************************************************************)
(* CENTRACKER, src/utils.py: the pair-candidate detection engine.          *)
(*                                                                         *)
(* Numbers.  The program computes with Python floats.  The model computes  *)
(* with integers and keeps every quantity exact:                           *)
(*   - times are whole frames;                                             *)
(*   - spot positions lie on the lattice line Base + k * Step, with        *)
(*     Step = (4, 6, 12), so that every distance is the integer 14 * |k|,  *)
(*     every midpoint is an integer point and every unit vector is an      *)
(*     integer multiple of 1/Unit (Unit = 7: a component c of a normalized *)
(*     vector is stored as c * Unit);                                      *)
(*   - a mean is the fraction [num, den] (sum, count), never rounded;      *)
(*   - a standard deviation is stored as its exact square, a fraction.     *)
(* An exception raised by the program is the state pc = "error" with err   *)
(* naming it.                                                              *)
(***************************************************************************)
EXTENDS Integers, Sequences, FiniteSets, TLC

VARIABLES
    pc,        \* where the run stands
    args,      \* pair()'s arguments: maxdist, mindist, maxcongdist, minoverlap, dim
    xml,       \* the parsed TrackMate export: track rows, edge rows, spot rows, framerate
    movie,     \* what findCroppedDim(originalMovie) yields: a box, or "unreadable"
    myPairer,  \* the TrackPairer object of pair()
    f,         \* console.txt, the lines written so far
    row,       \* getAllTracks: index of the next row of track_general
    i,         \* findNeighbors: position of myTrack in allTracks.values()
    j,         \* findNeighbors: position of nbr in allTracks.values()
    err,       \* the exception that ended the run, or "none"
    call,      \* a direct call of one function: its name and arguments
    ret,       \* what that call returned
    df         \* pair: the feature table cell2df returned

vars == <<pc, args, xml, movie, myPairer, f, row, i, j, err, call, ret, df>>

\* Python's None, where the model never compares it with a value.
None == "None"

\* None where a tuple is expected: pair()'s dim, TrackPairer.DIM.
NoDim == <<>>

\* findDist's bare return: None, as a value that can be told from its 4-tuple.
NoOverlap == [isNone |-> TRUE]

\* None in a cell's dist2border, which later holds a fraction.
NoDistance == [num |-> 0, den |-> 0]

----------------------------------------------------------------------------
(* Python builtins and library functions the program uses.                 *)

RECURSIVE sum(_)
sum(xs) == IF xs = <<>> THEN 0 ELSE Head(xs) + sum(Tail(xs))

\* The first element in the place of the largest.
max_first(xs) == xs[1]

RECURSIVE max(_)
max(xs) == IF Len(xs) = 1 THEN xs[1]
           ELSE LET m == max(Tail(xs)) IN IF xs[1] >= m THEN xs[1] ELSE m

RECURSIVE min(_)
min(xs) == IF Len(xs) = 1 THEN xs[1]
           ELSE LET m == min(Tail(xs)) IN IF xs[1] <= m THEN xs[1] ELSE m

----------------------------------------------------------------------------
(* Helper functions, src/utils.py lines 18-50.                             *)

\* The square root, exact on the squares the lattice produces.
RECURSIVE sqrtFrom(_, _)
sqrtFrom(n, r) == IF r * r >= n THEN r ELSE sqrtFrom(n, r + 1)

sqrt(n) == sqrtFrom(n, 0)

\* The fixed-point scale of a normalized vector's components.
Unit == 7

\* With a unit vector along x for a zero-length input.
normalize_zeroAsX(vector) ==
    IF vector = <<0, 0, 0>> THEN <<Unit, 0, 0>>
    ELSE LET length == sqrt(vector[1] * vector[1] + vector[2] * vector[2]
                            + vector[3] * vector[3])
         IN <<(vector[1] * Unit) \div length, (vector[2] * Unit) \div length,
              (vector[3] * Unit) \div length>>

normalize(vector) ==
    LET x == vector[1]
        y == vector[2]
        z == vector[3]
        length == sqrt(x * x + y * y + z * z)
    IN IF length = 0 THEN <<0, 0, 0>>
       ELSE <<(x * Unit) \div length, (y * Unit) \div length, (z * Unit) \div length>>

\* The distance in the image plane only.
euclidean_xy(u, v) ==
    sqrt((u[1] - v[1]) * (u[1] - v[1]) + (u[2] - v[2]) * (u[2] - v[2]))

\* scipy.spatial.distance.euclidean
euclidean(u, v) ==
    sqrt((u[1] - v[1]) * (u[1] - v[1]) + (u[2] - v[2]) * (u[2] - v[2])
         + (u[3] - v[3]) * (u[3] - v[3]))

----------------------------------------------------------------------------
(* Exact fractions, for the float results of mean, / and stdev.            *)

RECURSIVE gcd(_, _)
gcd(a, b) == IF b = 0 THEN a ELSE gcd(b, a % b)

abs(a) == IF a < 0 THEN 0 - a ELSE a

\* num / den in lowest terms, den > 0.
frac(n, d) ==
    LET s == IF d < 0 THEN 0 - 1 ELSE 1
        g == gcd(abs(n), abs(d))
    IN [num |-> (s * n) \div g, den |-> (s * d) \div g]

fracAdd(a, b) == frac(a.num * b.den + b.num * a.den, a.den * b.den)

fracSub(a, b) == frac(a.num * b.den - b.num * a.den, a.den * b.den)

fracHalf(a) == frac(a.num, 2 * a.den)

fracLe(a, b) == a.num * b.den <= b.num * a.den

fracDiv(a, b) == frac(a.num * b.den, a.den * b.num)

fracMul(a, b) == frac(a.num * b.num, a.den * b.den)

\* statistics.mean: sum / count.
mean(xs) == frac(sum(xs), Len(xs))

\* statistics.stdev squared, the sample variance:
\* (n * sum(x^2) - sum(x)^2) / (n * (n - 1)).
variance(xs) ==
    LET n == Len(xs)
        sq == [k \in 1..n |-> xs[k] * xs[k]]
    IN frac(n * sum(sq) - sum(xs) * sum(xs), n * (n - 1))


\* findCong's loop from sample k on; st = [t_cong, t_prev, all_periods].
RECURSIVE findCongLoop(_, _, _, _, _)
findCongLoop(time, dist, max_dist, k, st) ==
    IF k > Len(time) \/ k > Len(dist) THEN st
    ELSE LET t == time[k]
             d == dist[k]
             broken == st.t_prev + 1 # t
             periods == IF broken /\ st.t_cong # 0
                        THEN Append(st.all_periods, st.t_cong)
                        ELSE st.all_periods
             c0 == IF broken THEN 0 ELSE st.t_cong
             c1 == IF d < max_dist THEN c0 + 1 ELSE c0
         IN findCongLoop(time, dist, max_dist, k + 1,
                         [t_cong |-> c1, t_prev |-> t, all_periods |-> periods])

\* findCong with the reset at a time gap left out: every sample below max_dist counts.
findCong_noGapReset(time, dist, max_dist) ==
    Cardinality({k \in 1..Len(time) : dist[k] < max_dist})

findCong(time, dist, max_dist) ==
    LET st == findCongLoop(time, dist, max_dist, 1,
                           [t_cong |-> 0, t_prev |-> time[1] - 1, all_periods |-> <<>>])
    IN max(Append(st.all_periods, st.t_cong))


----------------------------------------------------------------------------
(* TrackPairer, src/utils.py lines 489-750.  An object is a record; the    *)
(* dict allTracks, whose values() order the pairing loop follows, is the   *)
(* sequence of its values in insertion order; allSpots and allEdges are    *)
(* functions from keys to values.                                          *)

\* TrackPairer.__init__
TrackPairer(DIM, maxdist, mindist, maxcongdist, minoverlap) ==
    [min_overlap |-> minoverlap, max_dist |-> maxdist, min_dist |-> mindist,
     maxcongdist |-> maxcongdist, DIM |-> DIM,
     allTracks |-> <<>>, allSpots |-> <<>>, allEdges |-> <<>>, cells |-> <<>>,
     top |-> None, bottom |-> None, left |-> None, right |-> None]

\* d[key] = value on a dict held as a function.
dictSet(d, key, value) ==
    IF key \in DOMAIN d THEN [d EXCEPT ![key] = value] ELSE d @@ (key :> value)

\* allTracks[myTrack.id] = myTrack on the insertion-ordered dict.
tracksSet(allTracks, myTrack) ==
    IF \E k \in 1..Len(allTracks) : allTracks[k].id = myTrack.id
    THEN [k \in 1..Len(allTracks) |->
             IF allTracks[k].id = myTrack.id THEN myTrack ELSE allTracks[k]]
    ELSE Append(allTracks, myTrack)

\* allTracks[id]
tracksGet(allTracks, id) ==
    allTracks[CHOOSE k \in 1..Len(allTracks) : allTracks[k].id = id]

track_dist2border(self, x, y) ==
    LET toTop == y - self.top
        toBottom == self.bottom - y
        toLeft == x - self.left
        toRight == self.right - x
    IN min(<<toTop, toBottom, toLeft, toRight>>)

\* getAllSpots' loop over the spot rows, from row k on.
RECURSIVE getAllSpotsLoop(_, _, _)
getAllSpotsLoop(allSpots, spots, k) ==
    IF k > Len(spots) THEN allSpots
    ELSE LET r == spots[k]
             mySpot == [id |-> r.ID, x |-> r.POSITION_X, y |-> r.POSITION_Y,
                        z |-> r.POSITION_Z, diam |-> r.ESTIMATED_DIAMETER,
                        maxInt |-> r.MAX_INTENSITY, contrast |-> r.CONTRAST]
         IN getAllSpotsLoop(dictSet(allSpots, mySpot.id, mySpot), spots, k + 1)

getAllSpots(self, spots) == getAllSpotsLoop(self.allSpots, spots, 1)

\* getAllTracks' loop over the edge rows, from row k on.
RECURSIVE populateEdges(_, _, _)
populateEdges(allEdges, track_detail, k) ==
    IF k > Len(track_detail) THEN allEdges
    ELSE LET r == track_detail[k]
             myEdge == [source |-> r.SPOT_SOURCE_ID, target |-> r.SPOT_TARGET_ID,
                        track_id |-> r.TRACK_ID, t |-> r.EDGE_TIME]
             next == IF myEdge.track_id \in DOMAIN allEdges
                     THEN [allEdges EXCEPT ![myEdge.track_id] =
                               dictSet(@, myEdge.t, myEdge.source)]
                     ELSE allEdges @@ (myEdge.track_id :> (myEdge.t :> myEdge.source))
         IN populateEdges(next, track_detail, k + 1)

\* findTrackInfo's loop from time t on; acc = [maxInt, diam, contrast].
RECURSIVE findTrackInfoLoop(_, _, _, _)
findTrackInfoLoop(self, myTrack, t, acc) ==
    IF ~(t <= myTrack.t_f) THEN acc
    ELSE IF t \notin DOMAIN self.allEdges[myTrack.id]
         THEN findTrackInfoLoop(self, myTrack, t + 1, acc)
         ELSE LET spotID == self.allEdges[myTrack.id][t]
                  spot == self.allSpots[spotID]
              IN findTrackInfoLoop(self, myTrack, t + 1,
                     [maxInt |-> Append(acc.maxInt, spot.maxInt),
                      diam |-> Append(acc.diam, spot.diam),
                      contrast |-> Append(acc.contrast, spot.contrast)])

\* Returns <<diameter, contrast, intensity>>.
findTrackInfo(self, myTrack) ==
    LET acc == findTrackInfoLoop(self, myTrack, myTrack.t_i,
                                 [maxInt |-> <<>>, diam |-> <<>>, contrast |-> <<>>])
    IN IF Len(acc.diam) < 1 THEN <<frac(0, 1), frac(0, 1), frac(0, 1)>>
       ELSE <<mean(acc.diam), mean(acc.contrast), mean(acc.maxInt)>>

\* findDist's loop from time t on; acc = [sl, centers, normals, time].
RECURSIVE findDistLoop(_, _, _, _, _, _)
findDistLoop(self, trackI, trackJ, stop, t, acc) ==
    IF ~(t < stop) THEN acc
    ELSE IF t \notin DOMAIN self.allEdges[trackI.id]
         THEN findDistLoop(self, trackI, trackJ, stop, t + 1, acc)
    ELSE IF t \notin DOMAIN self.allEdges[trackJ.id]
         THEN findDistLoop(self, trackI, trackJ, stop, t + 1, acc)
    ELSE LET spot_i == self.allEdges[trackI.id][t]
             spot_j == self.allEdges[trackJ.id][t]
             ix == self.allSpots[spot_i].x
             iy == self.allSpots[spot_i].y
             iz == self.allSpots[spot_i].z
             jx == self.allSpots[spot_j].x
             jy == self.allSpots[spot_j].y
             jz == self.allSpots[spot_j].z
             dist == euclidean(<<ix, iy, iz>>, <<jx, jy, jz>>)
             center == <<(ix + jx) \div 2, (iy + jy) \div 2, (iz + jz) \div 2>>
             normal == <<ix - jx, iy - jy, iz - jz>>
             n_normal == normalize(normal)
         IN findDistLoop(self, trackI, trackJ, stop, t + 1,
                [isNone |-> FALSE,
                 time |-> Append(acc.time, t),
                 sl |-> Append(acc.sl, dist),
                 centers |-> [x |-> Append(acc.centers.x, center[1]),
                              y |-> Append(acc.centers.y, center[2]),
                              z |-> Append(acc.centers.z, center[3])],
                 normals |-> [x |-> Append(acc.normals.x, n_normal[1]),
                              y |-> Append(acc.normals.y, n_normal[2]),
                              z |-> Append(acc.normals.z, n_normal[3])]])

\* Returns NoOverlap (None), or [sl, centers, normals, time].
findDist(self, id_i, id_j) ==
    LET trackI == tracksGet(self.allTracks, id_i)
        trackJ == tracksGet(self.allTracks, id_j)
        start == max(<<trackI.t_i, trackJ.t_i>>)
        stop == min(<<trackI.t_f, trackJ.t_f>>)
    IN IF stop - start <= 0 THEN NoOverlap
       ELSE findDistLoop(self, trackI, trackJ, stop, start,
                [isNone |-> FALSE, time |-> <<>>, sl |-> <<>>,
                 centers |-> [x |-> <<>>, y |-> <<>>, z |-> <<>>],
                 normals |-> [x |-> <<>>, y |-> <<>>, z |-> <<>>]])


\* The track object getAllTracks builds from one row of track_general.
trackOfRow(self, r) ==
    LET t0 == [id |-> r.TRACK_ID, x |-> r.TRACK_X_LOCATION, y |-> r.TRACK_Y_LOCATION,
               z |-> r.TRACK_Z_LOCATION, t_i |-> r.TRACK_START, t_f |-> r.TRACK_STOP,
               duration |-> r.TRACK_DURATION]
        info == findTrackInfo(self, t0)
    IN [id |-> t0.id, x |-> t0.x, y |-> t0.y, z |-> t0.z, t_i |-> t0.t_i,
        t_f |-> t0.t_f, duration |-> t0.duration,
        diameter |-> info[1], contrast |-> info[2], intensity |-> info[3]]

\* The border filter of getAllTracks: the track is discarded.
onBorder_strict(self, myTrack) == track_dist2border(self, myTrack.x, myTrack.y) < 0

onBorder(self, myTrack) == track_dist2border(self, myTrack.x, myTrack.y) <= 0

\* The duration filter with no track discarded.
tooShort_never(self, myTrack) == FALSE

\* The duration filter of getAllTracks: the track is discarded.
tooShort(self, myTrack) == myTrack.duration < self.min_overlap

\* One iteration of getAllTracks' loop over track_general: <<self, f>> after it.
getAllTracksRow(self, log, r) ==
    LET myTrack == trackOfRow(self, r)
    IN IF onBorder(self, myTrack)
       THEN <<self, Append(log, <<myTrack.id, "not included: outside border">>)>>
       ELSE IF tooShort(self, myTrack)
       THEN <<self, Append(log, <<myTrack.id,
                                  "not included: duration less than min_overlap">>)>>
       ELSE <<[self EXCEPT !.allTracks = tracksSet(@, myTrack)], log>>

\* getAllTracks' loop over track_general from row k on: <<self, f>> after it.
RECURSIVE getAllTracksLoop(_, _, _, _)
getAllTracksLoop(self, log, track_general, k) ==
    IF k > Len(track_general) THEN <<self, log>>
    ELSE LET r == getAllTracksRow(self, log, track_general[k])
         IN getAllTracksLoop(r[1], r[2], track_general, k + 1)

\* The cell with the photometry of myTrack alone in the place of the two tracks'
\* average.
cellOf_ownPhotometry(self, myTrack, nbr, t_start, t_stop, d, framerate) ==
    [centID_i |-> myTrack.id,
     centID_j |-> nbr.id,
     t_overlap |-> t_stop - t_start,
     sl_i |-> d.sl[1],
     sl_f |-> d.sl[Len(d.sl)],
     sl_max |-> max(d.sl),
     sl_min |-> min(d.sl),
     center |-> <<mean(d.centers.x), mean(d.centers.y), mean(d.centers.z)>>,
     center_stdev |-> fracAdd(fracAdd(variance(d.centers.x), variance(d.centers.y)),
                              variance(d.centers.z)),
     normal_stdev |-> fracAdd(fracAdd(variance(d.normals.x), variance(d.normals.y)),
                              variance(d.normals.z)),
     t_cong |-> findCong(d.time, d.sl, self.maxcongdist) * framerate,
     contrast |-> myTrack.contrast,
     intensity |-> myTrack.intensity,
     diameter |-> myTrack.diameter,
     dist2border |-> NoDistance]

\* The cell findNeighbors fills in for a pair that passed the filters.
cellOf(self, myTrack, nbr, t_start, t_stop, d, framerate) ==
    [centID_i |-> myTrack.id,
     centID_j |-> nbr.id,
     t_overlap |-> t_stop - t_start,
     sl_i |-> d.sl[1],
     sl_f |-> d.sl[Len(d.sl)],
     sl_max |-> max(d.sl),
     sl_min |-> min(d.sl),
     center |-> <<mean(d.centers.x), mean(d.centers.y), mean(d.centers.z)>>,
     center_stdev |-> fracAdd(fracAdd(variance(d.centers.x), variance(d.centers.y)),
                              variance(d.centers.z)),
     normal_stdev |-> fracAdd(fracAdd(variance(d.normals.x), variance(d.normals.y)),
                              variance(d.normals.z)),
     t_cong |-> findCong(d.time, d.sl, self.maxcongdist) * framerate,
     contrast |-> fracHalf(fracAdd(myTrack.contrast, nbr.contrast)),
     intensity |-> fracHalf(fracAdd(myTrack.intensity, nbr.intensity)),
     diameter |-> fracHalf(fracAdd(myTrack.diameter, nbr.diameter)),
     dist2border |-> NoDistance]

\* The filters of findNeighbors, each TRUE when it puts the pair out.
\* 1) line 700
nbrTooShort(self, nbr) == nbr.duration < self.min_overlap

\* 2) line 703
sameTrack_never(myTrack, nbr) == FALSE

sameTrack(myTrack, nbr) == myTrack.id = nbr.id

\* 3) with no pair put out for its overlap.
overlapTooShort_never(self, t_start, t_stop) == FALSE

\* 3) line 708
overlapTooShort(self, t_start, t_stop) == t_stop - t_start < self.min_overlap

\* 4) line 713
tooFewSamples(dist) == Len(dist) < 2

\* 4) lines 716-719, with max(dist) in the place of mean(dist).
tooFarAway_max(self, dist) == max(dist) > self.max_dist

\* 4) lines 716-719
tooFarAway(self, dist) == ~fracLe(mean(dist), frac(self.max_dist, 1))

\* 5) line 723
neverClose(self, dist) == min(dist) > self.min_dist

\* One iteration of findNeighbors' inner loop, for myTrack and nbr:
\* [kind, stage, line, cell], kind one of "skip" (continue, nothing written),
\* "reject" (continue, a line written), "emit" (a cell appended), "raise"
\* (line 712 unpacks findDist's None: TypeError).
pairStep(self, myTrack, nbr, framerate) ==
    LET t_start == max(<<myTrack.t_i, nbr.t_i>>)
        t_stop == min(<<myTrack.t_f, nbr.t_f>>)
        d == findDist(self, myTrack.id, nbr.id)
        out(kind, stage, text, c) ==
            [kind |-> kind, stage |-> stage,
             line |-> <<myTrack.id, nbr.id, text>>, cell |-> c]
    IN IF nbrTooShort(self, nbr) THEN out("skip", 1, "", None)
       ELSE IF sameTrack(myTrack, nbr) THEN out("skip", 2, "", None)
       ELSE IF overlapTooShort(self, t_start, t_stop)
       THEN out("reject", 3, "not pair: overlap time too short", None)
       ELSE IF d.isNone THEN out("raise", 4, "TypeError", None)
       ELSE IF tooFewSamples(d.sl)
       THEN out("reject", 4, "not pair: overlap time too short (<2)", None)
       ELSE IF tooFarAway(self, d.sl)
       THEN out("reject", 5, "not pair: too far away", None)
       ELSE IF neverClose(self, d.sl)
       THEN out("reject", 6, "not pair: too far away (min distance filter)", None)
       ELSE out("emit", 7, "", cellOf(self, myTrack, nbr, t_start, t_stop, d, framerate))

\* min of a non-empty list of fractions.
RECURSIVE fracMin(_)
fracMin(xs) == IF Len(xs) = 1 THEN xs[1]
               ELSE LET m == fracMin(Tail(xs)) IN IF fracLe(xs[1], m) THEN xs[1] ELSE m

\* cell_dist2border with the distance written over center_stdev.
cell_dist2border_overSpread(self) ==
    [k \in 1..Len(self.cells) |->
        LET myCell == self.cells[k]
            toTop == fracSub(myCell.center[2], frac(self.top, 1))
            toBottom == fracSub(frac(self.bottom, 1), myCell.center[2])
            toLeft == fracSub(myCell.center[1], frac(self.left, 1))
            toRight == fracSub(frac(self.right, 1), myCell.center[1])
        IN [myCell EXCEPT !.dist2border = fracMin(<<toTop, toBottom, toLeft, toRight>>),
                          !.center_stdev = fracMin(<<toTop, toBottom, toLeft, toRight>>)]]

\* cell_dist2border: self.cells after it.
cell_dist2border(self) ==
    [k \in 1..Len(self.cells) |->
        LET myCell == self.cells[k]
            x == myCell.center[1]
            y == myCell.center[2]
            toTop == fracSub(y, frac(self.top, 1))
            toBottom == fracSub(frac(self.bottom, 1), y)
            toLeft == fracSub(x, frac(self.left, 1))
            toRight == fracSub(frac(self.right, 1), x)
        IN [myCell EXCEPT !.dist2border = fracMin(<<toTop, toBottom, toLeft, toRight>>)]]


----------------------------------------------------------------------------
(* cell2df, src/utils.py lines 842-880. A DataFrame is held as its columns  *)
(* in order and, for each column, the list of its values.                  *)

\* max of a non-empty list of fractions.
RECURSIVE fracMax(_)
fracMax(xs) == IF Len(xs) = 1 THEN xs[1]
               ELSE LET m == fracMax(Tail(xs)) IN IF fracLe(m, xs[1]) THEN xs[1] ELSE m

\* The scaling without the replacement of a zero range: every value of a
\* constant column goes to 1.
fit_transform_noZeroRange(X) ==
    [k \in 1..Len(X) |->
        IF fracMax(X) = fracMin(X) THEN frac(1, 1)
        ELSE fracDiv(fracSub(X[k], fracMin(X)), fracSub(fracMax(X), fracMin(X)))]

\* sklearn's MinMaxScaler().fit_transform on one column of 1 value or more:
\* X * scale_ + min_, scale_ = 1 / (data_max - data_min) with a zero range replaced
\* by 1, min_ = 0 - data_min * scale_.
fit_transform(X) ==
    LET data_min == fracMin(X)
        data_max == fracMax(X)
        data_range == fracSub(data_max, data_min)
        scale_ == IF data_range.num = 0 THEN frac(1, 1)
                  ELSE fracDiv(frac(1, 1), data_range)
        min_ == fracSub(frac(0, 1), fracMul(data_min, scale_))
    IN [k \in 1..Len(X) |-> fracAdd(fracMul(X[k], scale_), min_)]

\* The keys with the two ids first.
myDictKeys_idsFirst ==
    <<"centID_i", "centID_j", "t_overlap", "sl_i", "sl_f", "sl_min", "sl_max",
      "center_stdev", "normal_stdev", "t_cong", "contrast", "intensity", "diameter">>

\* The keys of myDict, in the order of the literal (lines 843-856).
myDictKeys ==
    <<"center_stdev", "normal_stdev", "sl_f", "sl_i", "sl_max", "sl_min", "t_cong",
      "t_overlap", "intensity", "diameter", "contrast", "centID_i", "centID_j">>

\* myDict after the loop of lines 857-870.
myDictOf(cells) ==
    [key \in {myDictKeys[n] : n \in 1..Len(myDictKeys)} |->
        [k \in 1..Len(cells) |-> cells[k][key]]]

\* cell2df: [raised |-> TRUE] when MinMaxScaler is given a column of 0 values
\* (ValueError, line 877), else the table.
cell2df(cells) ==
    LET myDict == myDictOf(cells)
    IN IF Len(cells) = 0 THEN [raised |-> TRUE]
       ELSE [raised |-> FALSE,
             columns |-> myDictKeys,
             data |-> [myDict EXCEPT !["contrast"] = fit_transform(myDict["contrast"]),
                                     !["intensity"] = fit_transform(myDict["intensity"])]]

----------------------------------------------------------------------------
(* TrackPairer.linkID, lines 752-773, and the free functions getAllTracks,  *)
(* findTrackInfo and linkID, lines 978-1069. A dict is held as a function,  *)
(* allTracks as the sequence of its values in insertion order.             *)

\* linkID's inner loop for trackID from time t on; acc = <<track2spot, spot2track>>.
RECURSIVE linkIDLoop(_, _, _, _, _)
linkIDLoop(self, trackID, stop, t, acc) ==
    IF ~(t < stop) THEN acc
    ELSE IF t \notin DOMAIN self.allEdges[trackID]
         THEN linkIDLoop(self, trackID, stop, t + 1, acc)
         ELSE LET spotID == self.allEdges[trackID][t]
              IN linkIDLoop(self, trackID, stop, t + 1,
                     <<[acc[1] EXCEPT ![trackID] = Append(@, spotID)],
                       dictSet(acc[2], spotID, trackID)>>)

\* linkID's loop over trackIDList from position k on.
RECURSIVE linkIDList(_, _, _, _)
linkIDList(self, trackIDList, k, acc) ==
    IF k > Len(trackIDList) THEN acc
    ELSE LET trackID == trackIDList[k]
             track == tracksGet(self.allTracks, trackID)
         IN linkIDList(self, trackIDList, k + 1,
                linkIDLoop(self, trackID, track.t_f, track.t_i,
                           <<dictSet(acc[1], trackID, <<>>), acc[2]>>))

\* TrackPairer.linkID: <<track2spot, spot2track>>.
linkID(self, trackIDList) == linkIDList(self, trackIDList, 1, <<<<>>, <<>>>>)

\* The free findTrackInfo's loop from time t on; acc = [maxInt, diam, contrast].
RECURSIVE free_findTrackInfoLoop(_, _, _, _, _)
free_findTrackInfoLoop(myTrack, allEdges, allSpots, t, acc) ==
    IF ~(t <= myTrack.t_f) THEN acc
    ELSE IF t \notin DOMAIN allEdges[myTrack.id]
         THEN free_findTrackInfoLoop(myTrack, allEdges, allSpots, t + 1, acc)
         ELSE LET spotID == allEdges[myTrack.id][t]
                  spot == allSpots[spotID]
              IN free_findTrackInfoLoop(myTrack, allEdges, allSpots, t + 1,
                     [maxInt |-> Append(acc.maxInt, spot.maxInt),
                      diam |-> Append(acc.diam, spot.diam),
                      contrast |-> Append(acc.contrast, spot.contrast)])

\* The free findTrackInfo: <<diameter, contrast, intensity>>.
free_findTrackInfo(myTrack, allEdges, allSpots) ==
    LET acc == free_findTrackInfoLoop(myTrack, allEdges, allSpots, myTrack.t_i,
                                      [maxInt |-> <<>>, diam |-> <<>>, contrast |-> <<>>])
    IN IF Len(acc.diam) < 1 THEN <<frac(0, 1), frac(0, 1), frac(0, 1)>>
       ELSE <<mean(acc.diam), mean(acc.contrast), mean(acc.maxInt)>>

\* The free getAllTracks' loop over track_general from row k on.
RECURSIVE free_getAllTracksLoop(_, _, _, _, _)
free_getAllTracksLoop(allTracks, allEdges, allSpots, track_general, k) ==
    IF k > Len(track_general) THEN allTracks
    ELSE LET r == track_general[k]
             t0 == [id |-> r.TRACK_ID, x |-> r.TRACK_X_LOCATION,
                    y |-> r.TRACK_Y_LOCATION, z |-> r.TRACK_Z_LOCATION,
                    t_i |-> r.TRACK_START, t_f |-> r.TRACK_STOP,
                    duration |-> r.TRACK_DURATION]
             info == free_findTrackInfo(t0, allEdges, allSpots)
             myTrack == [id |-> t0.id, x |-> t0.x, y |-> t0.y, z |-> t0.z,
                         t_i |-> t0.t_i, t_f |-> t0.t_f, duration |-> t0.duration,
                         diameter |-> info[1], contrast |-> info[2],
                         intensity |-> info[3]]
         IN free_getAllTracksLoop(tracksSet(allTracks, myTrack), allEdges, allSpots,
                                  track_general, k + 1)

\* The free getAllTracks on the parsed export x: <<allTracks, allEdges>>.
free_getAllTracks(x, allSpots) ==
    LET allEdges == populateEdges(<<>>, x.track_detail, 1)
    IN <<free_getAllTracksLoop(<<>>, allEdges, allSpots, x.track_general, 1), allEdges>>

\* The free linkID's inner loop for trackID from time t on.
RECURSIVE free_linkIDLoop(_, _, _, _, _)
free_linkIDLoop(allEdges, trackID, stop, t, acc) ==
    IF ~(t < stop) THEN acc
    ELSE IF t \notin DOMAIN allEdges[trackID]
         THEN free_linkIDLoop(allEdges, trackID, stop, t + 1, acc)
         ELSE LET spotID == allEdges[trackID][t]
              IN free_linkIDLoop(allEdges, trackID, stop, t + 1,
                     <<[acc[1] EXCEPT ![trackID] = Append(@, spotID)],
                       dictSet(acc[2], spotID, trackID)>>)

\* The free linkID's loop over trackIDList from position k on.
RECURSIVE free_linkIDList(_, _, _, _, _)
free_linkIDList(trackIDList, allTracks, allEdges, k, acc) ==
    IF k > Len(trackIDList) THEN acc
    ELSE LET trackID == trackIDList[k]
             track == tracksGet(allTracks, trackID)
         IN free_linkIDList(trackIDList, allTracks, allEdges, k + 1,
                free_linkIDLoop(allEdges, trackID, track.t_f, track.t_i,
                                <<dictSet(acc[1], trackID, <<>>), acc[2]>>))

\* The free linkID: <<track2spot, spot2track>>.
free_linkID(trackIDList, allTracks, allEdges) ==
    free_linkIDList(trackIDList, allTracks, allEdges, 1, <<<<>>, <<>>>>)

----------------------------------------------------------------------------
(* The inputs: a TrackMate export (parseTracks, parseSpots, getFramerate), *)
(* the registered movie (findCroppedDim) and pair()'s arguments.           *)

\* The number of tracks of an export.
NTracks == 2

\* Spot positions: the lattice points Base + k * Step.
Q(k) == <<2 + 4 * k, 2 + 6 * k, 12 * k>>

\* A track's path: the lattice index of its spot at time t.
Paths == {"still", "mover"}

K(path, t) == IF path = "still" THEN 0 ELSE t % 3

\* TRACK_X/Y/Z_LOCATION, the track's mean position.
meanPosition(path) == IF path = "still" THEN Q(0) ELSE Q(1)

\* <<TRACK_START, TRACK_STOP>>
Windows == {<<0, 3>>, <<2, 4>>, <<3, 4>>}

\* The frames at which a track has no detection.
Gaps == {{}, {0}, {1}}

\* For findDist called directly: also a window that ends before another starts,
\* and a gap that empties a one-frame overlap.
DistWindows == Windows \cup {<<0, 2>>}

DistGaps == Gaps \cup {{2}}

spotID(id, t) == id * 10 + t

edgeRow(id, shape, t) ==
    [TRACK_ID |-> id, SPOT_SOURCE_ID |-> spotID(id, t),
     SPOT_TARGET_ID |-> spotID(id, t + 1), EDGE_TIME |-> t]

spotRow(id, shape, t) ==
    LET k == K(shape.path, t)
    IN [ID |-> spotID(id, t), POSITION_X |-> Q(k)[1], POSITION_Y |-> Q(k)[2],
        POSITION_Z |-> Q(k)[3], ESTIMATED_DIAMETER |-> 2 + k,
        MAX_INTENSITY |-> 10 + 10 * k, CONTRAST |-> 4 + 2 * k]

\* The rows of a track's edges (what = "edge") or of its spots, from time t to last.
RECURSIVE rowsFrom(_, _, _, _, _)
rowsFrom(id, shape, t, last, what) ==
    IF t > last THEN <<>>
    ELSE IF t \in shape.gap THEN rowsFrom(id, shape, t + 1, last, what)
    ELSE <<IF what = "edge" THEN edgeRow(id, shape, t) ELSE spotRow(id, shape, t)>>
         \o rowsFrom(id, shape, t + 1, last, what)

trackRow(id, shape) ==
    [TRACK_ID |-> id,
     TRACK_X_LOCATION |-> meanPosition(shape.path)[1],
     TRACK_Y_LOCATION |-> meanPosition(shape.path)[2],
     TRACK_Z_LOCATION |-> meanPosition(shape.path)[3],
     TRACK_START |-> shape.win[1], TRACK_STOP |-> shape.win[2],
     TRACK_DURATION |-> shape.win[2] - shape.win[1]]

RECURSIVE concat(_)
concat(seqs) == IF seqs = <<>> THEN <<>> ELSE Head(seqs) \o concat(Tail(seqs))

\* The export whose track id has shape shapes[id].
xmlOf(shapes) ==
    [track_general |-> [id \in 1..Len(shapes) |-> trackRow(id, shapes[id])],
     track_detail |-> concat([id \in 1..Len(shapes) |->
         rowsFrom(id, shapes[id], shapes[id].win[1], shapes[id].win[2] - 1, "edge")]),
     spots |-> concat([id \in 1..Len(shapes) |->
         rowsFrom(id, shapes[id], shapes[id].win[1], shapes[id].win[2], "spot")]),
     framerate |-> 2]

xmlsOver(windows, gaps) ==
    {xmlOf(shapes) : shapes \in [1..NTracks -> [win : windows, gap : gaps, path : Paths]]}

Xmls == xmlsOver(Windows, Gaps)

DistXmls == xmlsOver(DistWindows, DistGaps)

\* findCroppedDim's result <<top, bottom, left, right>>, or its failure.
Unreadable == <<>>

MovieBox == <<4, 20, 0, 20>>

Movies == {Unreadable, MovieBox}

\* pair()'s dim = (left, right, top, bottom), or None.
Dims == {NoDim, <<0, 20, 0, 20>>, <<2, 20, 0, 20>>}

MaxDists == {11, 25}

MinDists == {4, 14}

MaxCongDists == {15}

MinOverlaps == {0, 2, 3}

Args == {a \in [maxdist : MaxDists, mindist : MinDists, maxcongdist : MaxCongDists,
                 minoverlap : MinOverlaps, dim : Dims] : a.mindist < a.maxdist}

----------------------------------------------------------------------------
(* pair(), src/utils.py lines 882-892, step by step.                       *)

Init ==
    /\ pc = "pair"
    /\ args \in Args
    /\ xml \in Xmls
    /\ movie \in Movies
    /\ (args.dim # NoDim => movie = MovieBox)
    /\ myPairer = <<>>
    /\ f = <<>>
    /\ row = 0
    /\ i = 0
    /\ j = 0
    /\ err = "none"
    /\ df = None
    /\ call = None
    /\ ret = None

\* pair() lines 886-890: the pairer is constructed; a given dim sets its bounds.
pairConstruct(a) ==
    LET p == TrackPairer(a.dim, a.maxdist, a.mindist, a.maxcongdist, a.minoverlap)
    IN IF a.dim = NoDim THEN p
       ELSE [p EXCEPT !.left = a.dim[1], !.right = a.dim[2],
                      !.top = a.dim[3], !.bottom = a.dim[4]]

Pair_Construct ==
    /\ pc = "pair"
    /\ myPairer' = pairConstruct(args)
    /\ pc' = "getAllSpots"
    /\ UNCHANGED <<args, xml, movie, f, row, i, j, err, call, ret, df>>

\* findNeighbors line 692.
FindNeighbors_getAllSpots ==
    /\ pc = "getAllSpots"
    /\ myPairer' = [myPairer EXCEPT !.allSpots = getAllSpots(myPairer, xml.spots)]
    /\ pc' = "getAllTracks"
    /\ UNCHANGED <<args, xml, movie, f, row, i, j, err, call, ret, df>>

\* Where findNeighbors goes once getAllTracks has returned.
afterTracks(self) == IF Len(self.allTracks) = 0 THEN "cell_dist2border" ELSE "pairs"

\* The bounds read from the movie whether a DIM was given or not.
readBounds_always(self, m) ==
    [self EXCEPT !.top = m[1], !.bottom = m[2], !.left = m[3], !.right = m[4]]

\* getAllTracks lines 543-544: the bounds, read from the movie when no DIM was given.
readBounds(self, m) ==
    IF self.DIM = NoDim
    THEN [self EXCEPT !.top = m[1], !.bottom = m[2], !.left = m[3], !.right = m[4]]
    ELSE self

\* getAllTracks lines 543-558: the bounds and the edges.
GetAllTracks_Begin ==
    /\ pc = "getAllTracks"
    /\ IF myPairer.DIM = NoDim /\ movie = Unreadable
       THEN /\ pc' = "error"
            /\ err' = "findCroppedDim"
            /\ UNCHANGED <<myPairer, row, i, j>>
       ELSE /\ myPairer' = [readBounds(myPairer, movie) EXCEPT
                               !.allEdges = populateEdges(@, xml.track_detail, 1)]
            /\ row' = 1
            /\ pc' = IF Len(xml.track_general) = 0 THEN afterTracks(myPairer) ELSE "tracks"
            /\ i' = 1
            /\ j' = 1
            /\ err' = err
    /\ UNCHANGED <<args, xml, movie, f, call, ret, df>>

\* getAllTracks lines 560-580: one row of track_general.
GetAllTracks_Row ==
    /\ pc = "tracks"
    /\ row <= Len(xml.track_general)
    /\ LET r == getAllTracksRow(myPairer, f, xml.track_general[row])
       IN /\ myPairer' = r[1]
          /\ f' = r[2]
          /\ row' = row + 1
          /\ pc' = IF row = Len(xml.track_general) THEN afterTracks(r[1]) ELSE "tracks"
    /\ UNCHANGED <<args, xml, movie, i, j, err, call, ret, df>>

\* findNeighbors lines 697-748: one iteration of the inner loop.
FindNeighbors_Pair ==
    /\ pc = "pairs"
    /\ LET n == Len(myPairer.allTracks)
           o == pairStep(myPairer, myPairer.allTracks[i], myPairer.allTracks[j],
                         xml.framerate)
       IN IF o.kind = "raise"
          THEN /\ pc' = "error"
               /\ err' = o.line[3]
               /\ UNCHANGED <<myPairer, f, i, j>>
          ELSE /\ myPairer' = IF o.kind = "emit"
                              THEN [myPairer EXCEPT !.cells = Append(@, o.cell)]
                              ELSE myPairer
               /\ f' = IF o.kind = "reject" THEN Append(f, o.line) ELSE f
               /\ j' = IF j < n THEN j + 1 ELSE 1
               /\ i' = IF j < n THEN i ELSE i + 1
               /\ pc' = IF j = n /\ i = n THEN "cell_dist2border" ELSE "pairs"
               /\ err' = err
    /\ UNCHANGED <<args, xml, movie, row, call, ret, df>>

\* findNeighbors lines 749-750: the cells' distance to the border; the list is returned.
FindNeighbors_Return ==
    /\ pc = "cell_dist2border"
    /\ myPairer' = [myPairer EXCEPT !.cells = cell_dist2border(myPairer)]
    /\ pc' = "done"
    /\ UNCHANGED <<args, xml, movie, f, row, i, j, err, call, ret, df>>

\* pair line 893: the feature table of the returned list; with no candidate the
\* scaler raises.
Pair_cell2df ==
    /\ pc = "done"
    /\ LET t == cell2df(myPairer.cells)
       IN IF t.raised
          THEN /\ pc' = "error"
               /\ err' = "ValueError"
               /\ df' = df
          ELSE /\ pc' = "features"
               /\ err' = err
               /\ df' = t
    /\ UNCHANGED <<args, xml, movie, myPairer, f, row, i, j, call, ret>>

Next ==
    \/ Pair_Construct
    \/ FindNeighbors_getAllSpots
    \/ GetAllTracks_Begin
    \/ GetAllTracks_Row
    \/ FindNeighbors_Pair
    \/ FindNeighbors_Return
    \/ Pair_cell2df

Spec == Init /\ [][Next]_vars


----------------------------------------------------------------------------
(* findCong called directly, on sample lists as findDist produces them:    *)
(* non-empty, the times strictly increasing.                               *)

\* The last frame of a sample list.
MaxCongT == 4

CongDists == {2, 4, 6}

CongThresholds == {4}

\* The members of a set of integers in increasing order.
RECURSIVE sorted(_)
sorted(S) == IF S = {} THEN <<>>
             ELSE LET m == CHOOSE x \in S : \A y \in S : x <= y
                  IN <<m>> \o sorted(S \ {m})

\* The scenario of spec section 8: frames 10-20.
CongExample ==
    [fn |-> "findCong", time |-> [k \in 1..11 |-> 9 + k],
     dist |-> <<3, 3, 2, 2, 6, 6, 2, 2, 2, 2, 2>>, max_dist |-> 4]

CongCalls ==
    {CongExample} \cup
    UNION {{[fn |-> "findCong", time |-> sorted(S), dist |-> ds, max_dist |-> th] :
               ds \in [1..Cardinality(S) -> CongDists], th \in CongThresholds} :
           S \in (SUBSET (0..MaxCongT)) \ {{}}}

InitCong ==
    /\ pc = "call"
    /\ call \in CongCalls
    /\ ret = None
    /\ args = None
    /\ xml = None
    /\ movie = Unreadable
    /\ myPairer = <<>>
    /\ f = <<>>
    /\ row = 0
    /\ i = 0
    /\ j = 0
    /\ err = "none"
    /\ df = None

Call_findCong ==
    /\ pc = "call"
    /\ call.fn = "findCong"
    /\ ret' = findCong(call.time, call.dist, call.max_dist)
    /\ pc' = "returned"
    /\ UNCHANGED <<args, xml, movie, myPairer, f, row, i, j, err, call, df>>

SpecCong == InitCong /\ [][Call_findCong]_vars

\* Samples a..b form a run: consecutive times 1 apart, every distance below thr.
isRun(time, dist, thr, a, b) ==
    /\ \A k \in a..b : dist[k] < thr
    /\ \A k \in a..(b - 1) : time[k + 1] = time[k] + 1

\* The length of the longest run (0 when no sample is below thr).
longestRun(time, dist, thr) ==
    LET lens == {b - a + 1 : <<a, b>> \in
                    {ab \in (1..Len(time)) \X (1..Len(time)) :
                        ab[1] <= ab[2] /\ isRun(time, dist, thr, ab[1], ab[2])}}
    IN IF lens = {} THEN 0 ELSE CHOOSE m \in lens : \A l \in lens : l <= m

\* C3: findCong returns the length of the longest run of samples with consecutive
\* times exactly 1 apart and every distance below max_dist; a sample at or above
\* max_dist ends the run (the example of spec section 8 gives 4, not 9).
C3_LongestRun ==
    (pc = "returned" /\ call.fn = "findCong") =>
        ret = longestRun(call.time, call.dist, call.max_dist)

\* The places k where the samples k and k + 1 are not 1 apart in time.
gapsOf(time) == {k \in 1..(Len(time) - 1) : time[k + 1] # time[k] + 1}

\* C4: a time gap ends the current run and starts a new one: for samples made of
\* two parts separated by a gap, findCong's result is the larger of its results on
\* the two parts.
C4_GapSplitsRuns ==
    (pc = "returned" /\ call.fn = "findCong") =>
        \A k \in gapsOf(call.time) :
            LET n == Len(call.time)
                a == findCong(SubSeq(call.time, 1, k), SubSeq(call.dist, 1, k),
                              call.max_dist)
                b == findCong(SubSeq(call.time, k + 1, n), SubSeq(call.dist, k + 1, n),
                              call.max_dist)
            IN ret = IF a >= b THEN a ELSE b

\* A gap with distances below the threshold on both sides of it: the result is
\* less than the number of samples below the threshold.
C4_Witness ==
    /\ pc = "returned"
    /\ call.fn = "findCong"
    /\ \E k \in gapsOf(call.time) :
          /\ call.dist[k] < call.max_dist
          /\ call.dist[k + 1] < call.max_dist
    /\ \A k \in 1..Len(call.dist) : call.dist[k] < call.max_dist
    /\ ret < Len(call.dist)


----------------------------------------------------------------------------
(* findDist called directly on a pairer whose spots, edges and tracks have *)
(* been read (the state of findNeighbors at line 696), for any two of its  *)
(* tracks.                                                                 *)

\* The pairer of pair(a, ...) once getAllSpots and getAllTracks have returned.
loaded(a, x, m) ==
    LET p0 == pairConstruct(a)
        p1 == [p0 EXCEPT !.allSpots = getAllSpots(p0, x.spots)]
        p2 == [readBounds(p1, m) EXCEPT !.allEdges = populateEdges(@, x.track_detail, 1)]
    IN getAllTracksLoop(p2, <<>>, x.track_general, 1)[1]

\* Arguments under which every track of every export is kept.
KeepAll ==
    [maxdist |-> 25, mindist |-> 14, maxcongdist |-> 15, minoverlap |-> 0,
     dim |-> <<0, 20, 0, 20>>]

InitDist ==
    /\ pc = "call"
    /\ args = KeepAll
    /\ xml \in DistXmls
    /\ movie = MovieBox
    /\ myPairer = loaded(args, xml, movie)
    /\ call \in [fn : {"findDist"}, id_i : 1..NTracks, id_j : 1..NTracks]
    /\ ret = None
    /\ f = <<>>
    /\ row = 0
    /\ i = 0
    /\ j = 0
    /\ err = "none"
    /\ df = None

Call_findDist ==
    /\ pc = "call"
    /\ call.fn = "findDist"
    /\ ret' = findDist(myPairer, call.id_i, call.id_j)
    /\ pc' = "returned"
    /\ UNCHANGED <<args, xml, movie, myPairer, f, row, i, j, err, call, df>>

SpecDist == InitDist /\ [][Call_findDist]_vars

\* What the claims say of two tracks a and b of pairer p, from the records alone.
windowStart(a, b) == IF a.t_i >= b.t_i THEN a.t_i ELSE b.t_i

windowStop(a, b) == IF a.t_f <= b.t_f THEN a.t_f ELSE b.t_f

overlapOf(a, b) == windowStop(a, b) - windowStart(a, b)

\* The times of the window at which both tracks have a mapped spot.
commonTimes(p, a, b) ==
    {t \in windowStart(a, b)..(windowStop(a, b) - 1) :
        t \in DOMAIN p.allEdges[a.id] /\ t \in DOMAIN p.allEdges[b.id]}

\* The position of the spot track a is mapped to at time t.
positionAt(p, a, t) ==
    LET sp == p.allSpots[p.allEdges[a.id][t]] IN <<sp.x, sp.y, sp.z>>

\* Entry k of findDist's result r is computed from the two spots mapped at its time.
entryRight(p, a, b, r, k) ==
    LET u == positionAt(p, a, r.time[k])
        v == positionAt(p, b, r.time[k])
        sq == (u[1] - v[1]) * (u[1] - v[1]) + (u[2] - v[2]) * (u[2] - v[2])
              + (u[3] - v[3]) * (u[3] - v[3])
    IN /\ r.sl[k] >= 0
       /\ r.sl[k] * r.sl[k] = sq
       /\ 2 * r.centers.x[k] = u[1] + v[1]
       /\ 2 * r.centers.y[k] = u[2] + v[2]
       /\ 2 * r.centers.z[k] = u[3] + v[3]
       /\ r.normals.x[k] * r.sl[k] = (u[1] - v[1]) * Unit
       /\ r.normals.y[k] * r.sl[k] = (u[2] - v[2]) * Unit
       /\ r.normals.z[k] * r.sl[k] = (u[3] - v[3]) * Unit
       /\ (sq = 0 => r.normals.x[k] = 0 /\ r.normals.y[k] = 0 /\ r.normals.z[k] = 0)

\* C5: for two tracks with a positive overlap window findDist returns four
\* parallel sequences of equal length whose times are, in increasing order, exactly
\* the times of [max start, min stop) at which both tracks have a mapped spot, each
\* entry being the distance, the midpoint and the normalized difference of the two
\* spots mapped at that time.
C5_FindDistSequences ==
    (pc = "returned" /\ call.fn = "findDist") =>
        LET a == tracksGet(myPairer.allTracks, call.id_i)
            b == tracksGet(myPairer.allTracks, call.id_j)
        IN overlapOf(a, b) > 0 =>
              /\ ~ret.isNone
              /\ ret.time = sorted(commonTimes(myPairer, a, b))
              /\ \A s \in {ret.sl, ret.centers.x, ret.centers.y, ret.centers.z,
                           ret.normals.x, ret.normals.y, ret.normals.z} :
                     Len(s) = Len(ret.time)
              /\ \A k \in 1..Len(ret.time) : entryRight(myPairer, a, b, ret, k)

\* Two different tracks, a positive window, a frame in it that one track lacks,
\* and spots that are apart in all three coordinates.
C5_Witness ==
    /\ pc = "returned"
    /\ call.fn = "findDist"
    /\ call.id_i # call.id_j
    /\ ~ret.isNone
    /\ LET a == tracksGet(myPairer.allTracks, call.id_i)
           b == tracksGet(myPairer.allTracks, call.id_j)
       IN /\ overlapOf(a, b) > Len(ret.time)
          /\ Len(ret.time) >= 2
          /\ \E k \in 1..Len(ret.time) :
                ret.sl[k] > 0 /\ ret.normals.z[k] # 0 /\ ret.normals.x[k] # 0

\* C17: normalize gives (0,0,0) for the zero vector, and findDist does not fail on
\* two spots that coincide: every common time of the window has its sample, and
\* a sample is of coinciding spots exactly when its distance is 0, exactly when its
\* normal is (0,0,0).
C17_DegenerateNormal ==
    (pc = "returned" /\ call.fn = "findDist") =>
        LET a == tracksGet(myPairer.allTracks, call.id_i)
            b == tracksGet(myPairer.allTracks, call.id_j)
        IN /\ normalize(<<0, 0, 0>>) = <<0, 0, 0>>
           /\ overlapOf(a, b) > 0 =>
                 /\ ~ret.isNone
                 /\ {ret.time[k] : k \in 1..Len(ret.time)} = commonTimes(myPairer, a, b)
                 /\ \A k \in 1..Len(ret.time) :
                       LET same == positionAt(myPairer, a, ret.time[k])
                                      = positionAt(myPairer, b, ret.time[k])
                           n_normal == <<ret.normals.x[k], ret.normals.y[k],
                                         ret.normals.z[k]>>
                       IN /\ same <=> ret.sl[k] = 0
                          /\ same <=> n_normal = <<0, 0, 0>>

\* Two distinct tracks that coincide at one frame of three: that frame's sample
\* has distance 0 and a zero normal, the others have not.
C17_Witness ==
    /\ pc = "returned"
    /\ call.fn = "findDist"
    /\ call.id_i # call.id_j
    /\ ~ret.isNone
    /\ Len(ret.time) = 3
    /\ ret.sl[1] = 0
    /\ <<ret.normals.x[1], ret.normals.y[1], ret.normals.z[1]>> = <<0, 0, 0>>
    /\ ret.sl[2] > 0
    /\ ret.sl[3] > 0

\* findDist's two outcomes without samples: None exactly when the window is not
\* positive, empty sequences exactly when it is positive and holds no common time.
findDistOutcomes(p, a, b, r) ==
    /\ r.isNone <=> overlapOf(a, b) <= 0
    /\ ~r.isNone => (r.time = <<>> <=> commonTimes(p, a, b) = {})

\* The two outcomes, for every direct call of findDist.
FindDistOutcomesHold ==
    (pc = "returned" /\ call.fn = "findDist") =>
        findDistOutcomes(myPairer, tracksGet(myPairer.allTracks, call.id_i),
                         tracksGet(myPairer.allTracks, call.id_j), ret)

\* Both outcomes are reached by direct calls.
FindDistOutcomesReached ==
    /\ pc = "returned"
    /\ call.fn = "findDist"
    /\ ret.isNone


----------------------------------------------------------------------------
(* The claims about a run of pair().                                       *)

\* findNeighbors has got past getAllTracks' first lines: the bounds are set.
boundsRead ==
    \/ pc \in {"tracks", "pairs", "cell_dist2border", "done", "features"}
    \/ pc = "error" /\ err \in {"TypeError", "ValueError"}

\* getAllTracks has returned.
tracksRead ==
    \/ pc \in {"pairs", "cell_dist2border", "done", "features"}
    \/ pc = "error" /\ err \in {"TypeError", "ValueError"}

\* The rows of track_general getAllTracks has dealt with.
rowsDone ==
    IF pc = "tracks" THEN 1..(row - 1)
    ELSE IF tracksRead THEN 1..Len(xml.track_general)
    ELSE {}

\* The positions <<a, b>> in allTracks.values() of the ordered pairs whose
\* iteration of findNeighbors' inner loop has ended.
pairsDone ==
    LET n == Len(myPairer.allTracks)
    IN IF pc \in {"cell_dist2border", "done", "features"}
          \/ (pc = "error" /\ err = "ValueError")
       THEN (1..n) \X (1..n)
       ELSE IF pc = "pairs" \/ (pc = "error" /\ err = "TypeError")
       THEN {ab \in (1..n) \X (1..n) : ab[1] < i \/ (ab[1] = i /\ ab[2] < j)}
       ELSE {}

\* The cells of the list for tracks id_i, id_j, in this order.
cellsFor(id_i, id_j) ==
    {k \in 1..Len(myPairer.cells) :
        myPairer.cells[k].centID_i = id_i /\ myPairer.cells[k].centID_j = id_j}

\* The reasons console.txt gives for rejecting the pair id_i, id_j.
reasonsFor(id_i, id_j) ==
    {f[k][3] : k \in {m \in 1..Len(f) : Len(f[m]) = 3 /\ f[m][1] = id_i /\ f[m][2] = id_j}}

trackIds == {myPairer.allTracks[k].id : k \in 1..Len(myPairer.allTracks)}

\* C1, as claimed: the list returned by findNeighbors holds its candidates in the
\* canonical order centID_i < centID_j, never both (A,B) and (B,A), and no
\* unordered pair twice.
C1_Canonical ==
    pc = "done" =>
        /\ \A k \in 1..Len(myPairer.cells) :
              myPairer.cells[k].centID_i < myPairer.cells[k].centID_j
        /\ \A a, b \in trackIds :
              Cardinality(cellsFor(a, b) \cup cellsFor(b, a)) <= 1

\* C1, amended: the list returned by findNeighbors (one call on a new pairer, as in
\* pair()) holds at most one candidate for each ordered pair (i, j) of tracks,
\* none with i = j, and it is not canonicalized: it holds (A,B) exactly when it
\* holds (B,A).
C1_OncePerOrderedPair ==
    pc = "done" =>
        \A a, b \in trackIds :
            /\ Cardinality(cellsFor(a, b)) <= 1
            /\ cellsFor(a, a) = {}
            /\ cellsFor(a, b) = {} <=> cellsFor(b, a) = {}

\* A returned list that holds a pair in both orders.
C1_Witness ==
    /\ pc = "done"
    /\ \E a, b \in trackIds : a < b /\ cellsFor(a, b) # {} /\ cellsFor(b, a) # {}

\* The distances of tracks a and b at their common times, in time order.
distancesOf(p, a, b) ==
    LET ts == sorted(commonTimes(p, a, b))
    IN [k \in 1..Len(ts) |-> euclidean(positionAt(p, a, ts[k]), positionAt(p, b, ts[k]))]

\* The first of the six stages that the ordered pair (a, b) fails, 7 when none.
firstFailure(p, a, b) ==
    LET ds == distancesOf(p, a, b)
    IN IF ~(b.duration >= p.min_overlap) THEN 1
       ELSE IF ~(a.id # b.id) THEN 2
       ELSE IF ~(overlapOf(a, b) >= p.min_overlap) THEN 3
       ELSE IF ~(Len(ds) >= 2) THEN 4
       ELSE IF ~(sum(ds) <= p.max_dist * Len(ds)) THEN 5
       ELSE IF ~(\E k \in 1..Len(ds) : ds[k] <= p.min_dist) THEN 6
       ELSE 7

reasonOfStage(st) ==
    CASE st = 3 -> {"not pair: overlap time too short"}
      [] st = 4 -> {"not pair: overlap time too short (<2)"}
      [] st = 5 -> {"not pair: too far away"}
      [] st = 6 -> {"not pair: too far away (min distance filter)"}
      [] OTHER -> {}

\* The part of C2 that holds: for every ordered pair (i, j) of surviving tracks
\* whose iteration of the inner loop has ended, a candidate is emitted if and only if j.duration >= minOverlap, i # j,
\* overlap >= minOverlap, at least 2 samples, mean distance <= maxDist and minimum
\* distance <= minDist; a pair put out is put out for its first failing stage; every
\* candidate has t_overlap = min(stop) - max(start) >= minOverlap.
C2_CascadeDecides ==
    (pc \in {"pairs", "cell_dist2border", "done", "error"}) =>
        \A ab \in pairsDone :
            LET a == myPairer.allTracks[ab[1]]
                b == myPairer.allTracks[ab[2]]
                st == firstFailure(myPairer, a, b)
            IN /\ cellsFor(a.id, b.id) # {} <=> st = 7
               /\ reasonsFor(a.id, b.id) = reasonOfStage(st)
               /\ \A k \in cellsFor(a.id, b.id) :
                     /\ myPairer.cells[k].t_overlap = overlapOf(a, b)
                     /\ myPairer.cells[k].t_overlap >= myPairer.min_overlap

\* A run in which one pair was emitted: its mean distance is within maxDist
\* although its largest distance is not.
C2_Witness ==
    /\ pc = "done"
    /\ \E k \in 1..Len(myPairer.cells) :
          /\ myPairer.cells[k].sl_max > myPairer.max_dist
          /\ myPairer.cells[k].sl_min <= myPairer.min_dist

(* pair() on exports of three tracks: a pair on which line 712 raises can    *)
(* come before a pair that passes every stage.                              *)

ThreeXmls ==
    {xmlOf(shapes) : shapes \in [1..3 -> [win : {<<0, 3>>, <<3, 4>>}, gap : {{}},
                                          path : Paths]]}

\* Wide distance thresholds, the bounds given; min_overlap 0 or 2.
ThreeArgs ==
    {a \in Args : /\ a.maxdist = 25
                  /\ a.mindist = 14
                  /\ a.minoverlap \in {0, 2}
                  /\ a.dim = <<0, 20, 0, 20>>}

InitThree ==
    /\ pc = "pair"
    /\ args \in ThreeArgs
    /\ xml \in ThreeXmls
    /\ movie = MovieBox
    /\ myPairer = <<>>
    /\ f = <<>>
    /\ row = 0
    /\ i = 0
    /\ j = 0
    /\ err = "none"
    /\ df = None
    /\ call = None
    /\ ret = None

SpecThree == InitThree /\ [][Next]_vars

\* findNeighbors has ended: it returned its list, or it raised (findCroppedDim
\* failing under getAllTracks, line 544, or line 712); a ValueError is cell2df's,
\* after the return.
findNeighborsEnded ==
    \/ pc \in {"done", "features"}
    \/ pc = "error" /\ err \in {"findCroppedDim", "TypeError", "ValueError"}

\* C2: when findNeighbors has ended, for every ordered pair (i, j) of surviving
\* tracks a candidate has been emitted if and only if j.duration >= minOverlap,
\* i # j, overlap >= minOverlap, at least 2 samples, mean distance <= maxDist and
\* minimum distance <= minDist.
C2_EveryPairDecided ==
    findNeighborsEnded =>
        \A a \in 1..Len(myPairer.allTracks) : \A b \in 1..Len(myPairer.allTracks) :
            LET ta == myPairer.allTracks[a]
                tb == myPairer.allTracks[b]
            IN cellsFor(ta.id, tb.id) # {} <=> firstFailure(myPairer, ta, tb) = 7

\* Line 712 raised on the pair (1, 2), whose window is empty: the pair (1, 3),
\* which passes every stage, was never reached and has no candidate.
C2_PassingPairLostReached ==
    /\ pc = "error"
    /\ err = "TypeError"
    /\ Len(myPairer.allTracks) = 3
    /\ i = 1
    /\ j = 2
    /\ firstFailure(myPairer, myPairer.allTracks[1], myPairer.allTracks[3]) = 7
    /\ cellsFor(1, 3) = {}

\* C6: findDist returns None exactly when the window is not positive and empty
\* sequences exactly when the window is positive without a common time, and
\* findNeighbors, its caller, handles both: neither ends the run.
C6_BothOutcomesHandled ==
    (pc = "pairs" \/ (pc = "error" /\ err = "TypeError")) =>
        LET a == myPairer.allTracks[i]
            b == myPairer.allTracks[j]
            r == findDist(myPairer, a.id, b.id)
        IN /\ findDistOutcomes(myPairer, a, b, r)
           /\ (r.isNone \/ r.time = <<>>) => pc # "error"

\* C7: a pair with a zero or negative window, or with fewer than 2 samples, is
\* rejected without an exception: no run ends inside the pairing loop.
C7_NeverFatal ==
    pc = "error" => err # "TypeError"

\* C8: with minOverlap <= 0 the run fails at configuration time, before any track
\* is filtered and any pair is processed.
C8_OutOfRangeRejected ==
    args.minoverlap <= 0 => pc = "pair" \/ (pc = "error" /\ err = "OutOfRangeThreshold")

\* The least member of a non-empty set of integers.
least(S) == CHOOSE m \in S : \A x \in S : m <= x

\* The distance of the point (x, y) to the nearest of the four bounds.
distance2border(x, y, top, bottom, left, right) ==
    least({y - top, bottom - y, x - left, right - x})

\* What C9 says of row r of track_general: the track is excluded.
excluded(r) ==
    \/ distance2border(r.TRACK_X_LOCATION, r.TRACK_Y_LOCATION, myPairer.top,
                       myPairer.bottom, myPairer.left, myPairer.right) <= 0
    \/ r.TRACK_DURATION < myPairer.min_overlap

\* C9: a track is excluded before pairing if and only if its mean position is at
\* distance <= 0 from the nearest bound or its duration is below minOverlap; no
\* candidate names such a track.
C9_ExcludedTracks ==
    boundsRead =>
        /\ \A k \in rowsDone :
              LET r == xml.track_general[k]
              IN r.TRACK_ID \in trackIds <=> ~excluded(r)
        /\ \A c \in 1..Len(myPairer.cells) :
              \A r \in {xml.track_general[k] : k \in 1..Len(xml.track_general)} :
                  r.TRACK_ID \in {myPairer.cells[c].centID_i, myPairer.cells[c].centID_j}
                      => ~excluded(r)

\* A track exactly on the border is left out while the other track is kept.
C9_Witness ==
    /\ tracksRead
    /\ \E k \in rowsDone :
          LET r == xml.track_general[k]
          IN /\ distance2border(r.TRACK_X_LOCATION, r.TRACK_Y_LOCATION, myPairer.top,
                                myPairer.bottom, myPairer.left, myPairer.right) = 0
             /\ r.TRACK_DURATION >= myPairer.min_overlap
             /\ r.TRACK_ID \notin trackIds
    /\ trackIds # {}

\* The bounds the caller supplied, as [top, bottom, left, right]: pair()'s dim,
\* or else the box of the registered movie.
supplied ==
    IF args.dim # NoDim
    THEN [top |-> args.dim[3], bottom |-> args.dim[4],
          left |-> args.dim[1], right |-> args.dim[2]]
    ELSE [top |-> movie[1], bottom |-> movie[2], left |-> movie[3], right |-> movie[4]]

\* C10: without bounds (no dim from the caller, no box from the movie) the run
\* halts before any track is accepted or any pair processed; otherwise the border
\* filter is applied to every track, with the bounds supplied: the caller's when
\* given.
C10_BoundsOrHalt ==
    /\ (args.dim = NoDim /\ movie = Unreadable) =>
          /\ pc \in {"pair", "getAllSpots", "getAllTracks", "error"}
          /\ row = 0 /\ i = 0 /\ j = 0 /\ f = <<>>
          /\ pc # "pair" => myPairer.allTracks = <<>> /\ myPairer.cells = <<>>
    /\ boundsRead =>
          /\ <<myPairer.top, myPairer.bottom, myPairer.left, myPairer.right>>
                = <<supplied.top, supplied.bottom, supplied.left, supplied.right>>
          /\ \A k \in rowsDone :
                LET r == xml.track_general[k]
                IN r.TRACK_ID \in trackIds =>
                      distance2border(r.TRACK_X_LOCATION, r.TRACK_Y_LOCATION,
                          supplied.top, supplied.bottom, supplied.left, supplied.right) > 0

\* The run halted for want of bounds, nothing accepted.
C10_Witness ==
    /\ pc = "error"
    /\ err = "findCroppedDim"
    /\ args.dim = NoDim
    /\ myPairer.allTracks = <<>>
    /\ myPairer.cells = <<>>

\* C11: every candidate's sl_i and sl_f are the first and the last entry of the
\* pair's distance sequence (2 samples or more), sl_min and sl_max its least and
\* its largest entry, and so sl_min <= sl_i, sl_min <= sl_f, sl_min <= sl_max,
\* sl_i <= sl_max and sl_f <= sl_max.
C11_SpindleLengthOrder ==
    pc # "pair" =>
        \A k \in 1..Len(myPairer.cells) :
            LET c == myPairer.cells[k]
                ds == distancesOf(myPairer, tracksGet(myPairer.allTracks, c.centID_i),
                                  tracksGet(myPairer.allTracks, c.centID_j))
            IN /\ Len(ds) >= 2
               /\ c.sl_i = ds[1]
               /\ c.sl_f = ds[Len(ds)]
               /\ \A n \in 1..Len(ds) : c.sl_min <= ds[n] /\ ds[n] <= c.sl_max
               /\ \E n \in 1..Len(ds) : c.sl_min = ds[n]
               /\ \E n \in 1..Len(ds) : c.sl_max = ds[n]
               /\ c.sl_min <= c.sl_i /\ c.sl_min <= c.sl_f /\ c.sl_min <= c.sl_max
               /\ c.sl_i <= c.sl_max /\ c.sl_f <= c.sl_max

\* A candidate whose distance falls: the first entry is the largest, the last the
\* least.
C11_Witness ==
    /\ pc = "done"
    /\ \E k \in 1..Len(myPairer.cells) :
          /\ myPairer.cells[k].sl_f < myPairer.cells[k].sl_i
          /\ myPairer.cells[k].sl_min = myPairer.cells[k].sl_f
          /\ myPairer.cells[k].sl_i = myPairer.cells[k].sl_max

----------------------------------------------------------------------------
(* Two runs of pair() on the same export and movie, under different        *)
(* thresholds.                                                             *)

\* console.txt as getAllTracks leaves it in a run with arguments a.
loadedLog(a, x, m) ==
    LET p0 == pairConstruct(a)
        p1 == [p0 EXCEPT !.allSpots = getAllSpots(p0, x.spots)]
        p2 == [readBounds(p1, m) EXCEPT !.allEdges = populateEdges(@, x.track_detail, 1)]
    IN getAllTracksLoop(p2, <<>>, x.track_general, 1)[2]

\* The ids of the export's tracks.
exportIds == {xml.track_general[k].TRACK_ID : k \in 1..Len(xml.track_general)}

\* Where the ordered pair (id_i, id_j) leaves a run with arguments a: -1 when one
\* of its tracks is dropped by the border filter, 0 when one is dropped by the
\* duration filter, else the stage 1..6 of findNeighbors that puts it out, 7 when
\* a candidate is emitted, 8 when the iteration raises.
exitOf(a, id_i, id_j) ==
    LET p == loaded(a, xml, movie)
        log == loadedLog(a, xml, movie)
        kept == {p.allTracks[k].id : k \in 1..Len(p.allTracks)}
        o == pairStep(p, tracksGet(p.allTracks, id_i), tracksGet(p.allTracks, id_j),
                      xml.framerate)
    IN IF \E k \in 1..Len(log) :
             log[k] \in {<<id_i, "not included: outside border">>,
                         <<id_j, "not included: outside border">>}
       THEN 0 - 1
       ELSE IF id_i \notin kept \/ id_j \notin kept THEN 0
       ELSE IF o.kind = "raise" THEN 8
       ELSE o.stage

\* The run with arguments a returns a list: no iteration raises.
completes(a) == \A id_i, id_j \in exportIds : exitOf(a, id_i, id_j) # 8

\* The arguments that differ from a in exactly one threshold, which is stricter.
stricterThan(a) ==
    {s \in Args :
        /\ s.dim = a.dim /\ s.maxcongdist = a.maxcongdist
        /\ \/ s.maxdist < a.maxdist /\ s.mindist = a.mindist /\ s.minoverlap = a.minoverlap
           \/ s.mindist < a.mindist /\ s.maxdist = a.maxdist /\ s.minoverlap = a.minoverlap
           \/ s.minoverlap > a.minoverlap /\ s.maxdist = a.maxdist /\ s.mindist = a.mindist}

\* The exits that belong to the threshold in which s and a differ.
ownStages(s, a) ==
    IF s.maxdist # a.maxdist THEN {5}
    ELSE IF s.mindist # a.mindist THEN {6}
    ELSE {0, 1, 3}

\* What C12 says of the stricter arguments s and the relaxed arguments a.
monotonic(s, a) ==
    LET own == ownStages(s, a)
        pairs == exportIds \X exportIds
        emittedBy(b) == {pr \in pairs : exitOf(b, pr[1], pr[2]) = 7}
    IN /\ completes(a)
       /\ emittedBy(s) \subseteq emittedBy(a)
       /\ \A pr \in emittedBy(a) \ emittedBy(s) : exitOf(s, pr[1], pr[2]) \in own
       /\ \A pr \in pairs :
             (\A st \in own : exitOf(s, pr[1], pr[2]) < st) =>
                 exitOf(a, pr[1], pr[2]) = exitOf(s, pr[1], pr[2])

\* The run has ended inside or after the pairing loop, and the list holds the
\* pairs that exitOf gives as emitted.
runEnded ==
    /\ pc = "done" \/ (pc = "error" /\ err = "TypeError")
    /\ pc = "done" =>
          {<<myPairer.cells[k].centID_i, myPairer.cells[k].centID_j>> :
               k \in 1..Len(myPairer.cells)}
            = {pr \in exportIds \X exportIds : exitOf(args, pr[1], pr[2]) = 7}

\* C12: on the same tracks, a run in which exactly one threshold is relaxed
\* (maxDist raised, minDist raised or minOverlap lowered) returns a candidate set
\* that includes the stricter run's; every pair it newly admits left the stricter
\* run at that threshold's own stage, and every pair that left the stricter run at
\* an earlier stage leaves the relaxed run at the same stage.
C12_Monotonic ==
    (pc = "done" \/ (pc = "error" /\ err = "TypeError")) =>
        /\ runEnded
        /\ \A s \in stricterThan(args) : completes(s) => monotonic(s, args)

\* The same for runs whose minOverlap is positive, the relaxed run's included.
CascadeMonotonicWhenValid ==
    (runEnded /\ args.minoverlap > 0) =>
        \A s \in stricterThan(args) : monotonic(s, args)

\* A relaxed run that admits a pair the stricter run rejected.
CascadeMonotonicReached ==
    /\ pc = "done"
    /\ args.minoverlap > 0
    /\ \E s \in stricterThan(args) :
          \E pr \in exportIds \X exportIds :
              exitOf(args, pr[1], pr[2]) = 7 /\ exitOf(s, pr[1], pr[2]) # 7

----------------------------------------------------------------------------
(* cell2df called directly, on lists of candidates.                        *)

\* The longest list of candidates.
MaxCells == 3

\* The contrasts and the intensities of the candidates.
CellContrasts == {4, 5, 6}

CellIntensities == {10, 20}

\* A candidate as findNeighbors returns it, with contrast c and intensity n.
cellWith(c, n) ==
    [centID_i |-> 1, centID_j |-> 2, t_overlap |-> 3, sl_i |-> 0, sl_f |-> 28,
     sl_max |-> 28, sl_min |-> 0,
     center |-> <<frac(4, 1), frac(5, 1), frac(6, 1)>>,
     center_stdev |-> frac(49, 1), normal_stdev |-> frac(49, 3), t_cong |-> c,
     contrast |-> frac(c, 1), intensity |-> frac(n, 1), diameter |-> frac(c, 2),
     dist2border |-> frac(4, 1)]

CellLists ==
    UNION {[1..n -> {cellWith(c, m) : c \in CellContrasts, m \in CellIntensities}] :
              n \in 0..MaxCells}

InitDf ==
    /\ pc = "call"
    /\ call \in [fn : {"cell2df"}, cells : CellLists]
    /\ ret = None
    /\ args = None
    /\ xml = None
    /\ movie = Unreadable
    /\ myPairer = <<>>
    /\ f = <<>>
    /\ row = 0
    /\ i = 0
    /\ j = 0
    /\ err = "none"
    /\ df = None

Call_cell2df ==
    /\ pc = "call"
    /\ call.fn = "cell2df"
    /\ ret' = cell2df(call.cells)
    /\ pc' = "returned"
    /\ UNCHANGED <<args, xml, movie, myPairer, f, row, i, j, err, call, df>>

SpecDf == InitDf /\ [][Call_cell2df]_vars

\* cell2df has returned or raised.
dfCalled == pc = "returned" /\ call.fn = "cell2df"

\* The columns as section 6 of the specification lists them.
ColumnsAsListed ==
    <<"centID_i", "centID_j", "t_overlap", "sl_i", "sl_f", "sl_min", "sl_max",
      "center_stdev", "normal_stdev", "t_cong", "contrast", "intensity", "diameter">>

\* The columns as the table has them.
ColumnsAsBuilt ==
    <<"center_stdev", "normal_stdev", "sl_f", "sl_i", "sl_max", "sl_min", "t_cong",
      "t_overlap", "intensity", "diameter", "contrast", "centID_i", "centID_j">>

\* C13, as claimed: for every list of candidates the table of cell2df has exactly
\* the 13 columns centID_i, centID_j, t_overlap, sl_i, sl_f, sl_min, sl_max,
\* center_stdev, normal_stdev, t_cong, contrast, intensity, diameter, in this order.
C13_ColumnsAsListed ==
    dfCalled => ~ret.raised /\ ret.columns = ColumnsAsListed

\* C13, amended: for every list of one candidate or more the table of cell2df has
\* exactly the 13 columns center_stdev, normal_stdev, sl_f, sl_i, sl_max, sl_min,
\* t_cong, t_overlap, intensity, diameter, contrast, centID_i, centID_j, in this
\* order (the 11 features first, the two ids last); for the empty list cell2df
\* raises and there is no table.
C13_ColumnsAsBuilt ==
    dfCalled =>
        IF call.cells = <<>> THEN ret.raised
        ELSE /\ ~ret.raised
             /\ ret.columns = ColumnsAsBuilt
             /\ DOMAIN ret.data = {ColumnsAsBuilt[n] : n \in 1..13}
             /\ Cardinality(DOMAIN ret.data) = 13

\* A table of two rows: its first column is center_stdev, its last two the ids.
C13_Witness ==
    /\ dfCalled
    /\ Len(call.cells) = 2
    /\ ~ret.raised
    /\ ret.columns[1] = "center_stdev"
    /\ ret.columns[12] = "centID_i"
    /\ ret.columns[13] = "centID_j"

\* The columns cell2df leaves as they are.
KeptColumns == {ColumnsAsBuilt[n] : n \in 1..13} \ {"contrast", "intensity"}

\* C14: for a list of n candidates the table has exactly n rows, and row k holds
\* candidate k's values unchanged in every column other than contrast and
\* intensity.
C14_RowPerCandidate ==
    dfCalled =>
        /\ ~ret.raised
        /\ \A col \in DOMAIN ret.data : Len(ret.data[col]) = Len(call.cells)
        /\ \A col \in KeptColumns :
              \A k \in 1..Len(call.cells) : ret.data[col][k] = call.cells[k][col]

\* The same for the lists of one candidate or more.
RowPerCandidateWhenNonEmpty ==
    (dfCalled /\ call.cells # <<>>) =>
        /\ ~ret.raised
        /\ \A col \in DOMAIN ret.data : Len(ret.data[col]) = Len(call.cells)
        /\ \A col \in KeptColumns :
              \A k \in 1..Len(call.cells) : ret.data[col][k] = call.cells[k][col]

\* The values of column col before the scaling.
rawColumn(col) == [k \in 1..Len(call.cells) |-> call.cells[k][col]]

\* What C15 says of the raw values raw and the scaled values out of one column.
minMaxScaled(raw, out) ==
    LET n == Len(raw)
        lo == CHOOSE v \in {raw[k] : k \in 1..n} : \A k \in 1..n : fracLe(v, raw[k])
        hi == CHOOSE v \in {raw[k] : k \in 1..n} : \A k \in 1..n : fracLe(raw[k], v)
    IN /\ Len(out) = n
       /\ \A k \in 1..n : fracLe(frac(0, 1), out[k]) /\ fracLe(out[k], frac(1, 1))
       /\ lo # hi =>
             /\ \A k \in 1..n : raw[k] = lo <=> out[k] = frac(0, 1)
             /\ \A k \in 1..n : raw[k] = hi <=> out[k] = frac(1, 1)
             /\ \A k \in 1..n : fracMul(out[k], fracSub(hi, lo)) = fracSub(raw[k], lo)
       /\ lo = hi => \A k \in 1..n : out[k] = frac(0, 1)

\* C15: in the table of cell2df the contrast column is the min-max scaling of the
\* candidates' contrasts: every value in [0,1], with 2 distinct contrasts or more
\* the least at 0 and the largest at 1, with one candidate or a constant column
\* every value 0 (no division by zero); likewise, on its own, intensity.
C15_MinMaxScaled ==
    (dfCalled /\ call.cells # <<>>) =>
        /\ ~ret.raised
        /\ minMaxScaled(rawColumn("contrast"), ret.data["contrast"])
        /\ minMaxScaled(rawColumn("intensity"), ret.data["intensity"])

\* Three distinct contrasts under one intensity: contrast is scaled to 0, 1/2 and
\* 1, intensity is 0 throughout.
C15_Witness ==
    /\ dfCalled
    /\ ~ret.raised
    /\ {ret.data["contrast"][k] : k \in 1..Len(call.cells)}
          = {frac(0, 1), frac(1, 2), frac(1, 1)}
    /\ {ret.data["intensity"][k] : k \in 1..Len(call.cells)} = {frac(0, 1)}
    /\ \E k \in 1..Len(call.cells) : call.cells[k].intensity # frac(0, 1)

\* One candidate: both columns hold 0.
C15_SingleReached ==
    /\ dfCalled
    /\ Len(call.cells) = 1
    /\ ~ret.raised
    /\ ret.data["contrast"] = <<frac(0, 1)>>
    /\ ret.data["intensity"] = <<frac(0, 1)>>

----------------------------------------------------------------------------
(* console.txt.                                                            *)

\* The rows of track_general dealt with, as a sequence in the order of the table.
rowsDoneSeq ==
    LET inDone(k) == k \in rowsDone
    IN SelectSeq([k \in 1..Len(xml.track_general) |-> k], inDone)

\* The ordered pairs dealt with, as a sequence in the order of the enumeration.
pairsDoneSeq ==
    LET n == Len(myPairer.allTracks)
        inDone(ab) == ab \in pairsDone
    IN SelectSeq([m \in 1..(n * n) |-> <<((m - 1) \div n) + 1, ((m - 1) % n) + 1>>],
                 inDone)

\* The line of a track dropped before pairing: its id and which filter dropped it.
trackLine(r) ==
    IF distance2border(r.TRACK_X_LOCATION, r.TRACK_Y_LOCATION, myPairer.top,
                       myPairer.bottom, myPairer.left, myPairer.right) <= 0
    THEN <<r.TRACK_ID, "not included: outside border">>
    ELSE <<r.TRACK_ID, "not included: duration less than min_overlap">>

\* The lines of the dropped tracks among rows ks, in order.
RECURSIVE trackLines(_)
trackLines(ks) ==
    IF ks = <<>> THEN <<>>
    ELSE (IF excluded(xml.track_general[Head(ks)])
          THEN <<trackLine(xml.track_general[Head(ks)])>> ELSE <<>>)
         \o trackLines(Tail(ks))

\* The lines of the pairs among prs that fail at one of the stages sts, in order.
RECURSIVE pairLines(_, _)
pairLines(prs, sts) ==
    IF prs = <<>> THEN <<>>
    ELSE LET a == myPairer.allTracks[Head(prs)[1]]
             b == myPairer.allTracks[Head(prs)[2]]
             st == firstFailure(myPairer, a, b)
         IN (IF st \in sts THEN <<<<a.id, b.id, st>>>> ELSE <<>>)
            \o pairLines(Tail(prs), sts)

\* console.txt with each pair line's reason replaced by the stage it names.
stagesOf(log) ==
    [k \in 1..Len(log) |->
        IF Len(log[k]) = 2 THEN log[k]
        ELSE <<log[k][1], log[k][2],
               CHOOSE st \in 3..6 : log[k][3] \in reasonOfStage(st)>>]

\* C16, as claimed: console.txt holds exactly one line for each track dropped
\* before pairing and one line for each ordered pair put out at any of the six
\* stages, with the reason of its first failing stage, in the order of the
\* enumeration.
C16_EveryRejectionLogged ==
    boundsRead =>
        stagesOf(f) = trackLines(rowsDoneSeq) \o pairLines(pairsDoneSeq, 1..6)

\* C16, amended: console.txt holds exactly one line for each track dropped before
\* pairing, naming its id and the filter (border, else duration), and one line for
\* each ordered pair put out at stage 3, 4, 5 or 6, naming both ids and the reason
\* of its first failing stage, the tracks' lines first, all in the order of the
\* enumeration; a pair put out at stage 1 or 2 (a track with itself) writes
\* nothing.
C16_RejectionsLogged ==
    boundsRead =>
        stagesOf(f) = trackLines(rowsDoneSeq) \o pairLines(pairsDoneSeq, 3..6)

\* Two tracks whose overlap is below minOverlap: one line for each order of the
\* pair, none for a track with itself.
C16_Witness ==
    /\ pc = "done"
    /\ f = <<<<1, 2, "not pair: overlap time too short">>,
             <<2, 1, "not pair: overlap time too short">>>>
    /\ overlapOf(myPairer.allTracks[1], myPairer.allTracks[2]) > 0

\* A dropped track's line.
C16_TrackLineReached ==
    /\ pc = "done"
    /\ Len(f) = 2
    /\ f[1] = <<1, "not included: outside border">>
    /\ f[2] = <<2, "not included: duration less than min_overlap">>

----------------------------------------------------------------------------
(* The candidates after their creation.                                    *)

\* C18, as claimed: once a candidate is in the list, no later step (further pairs,
\* cell_dist2border, cell2df) changes any of its attributes.
C18_NeverMutated ==
    [][pc # "pair" =>
          \A k \in 1..Len(myPairer.cells) :
              /\ k <= Len(myPairer'.cells)
              /\ myPairer'.cells[k] = myPairer.cells[k]]_vars

\* C18, amended: once a candidate is in the list it stays at its place, and no
\* later step changes any of its attributes but one: dist2border, None at the
\* creation, is written once, by cell_dist2border after the last pair; the
\* processing of further pairs and cell2df change nothing.
C18_OnlyDist2borderWritten ==
    [][pc # "pair" =>
          \A k \in 1..Len(myPairer.cells) :
              /\ k <= Len(myPairer'.cells)
              /\ \/ myPairer'.cells[k] = myPairer.cells[k]
                 \/ /\ pc = "cell_dist2border"
                    /\ myPairer.cells[k].dist2border = NoDistance
                    /\ myPairer'.cells[k].dist2border # NoDistance
                    /\ myPairer'.cells[k] =
                          [myPairer.cells[k] EXCEPT
                              !.dist2border = myPairer'.cells[k].dist2border]]_vars

\* The table has been made of two candidates, whose dist2border was written
\* after their creation.
C18_Witness ==
    /\ pc = "features"
    /\ Len(myPairer.cells) = 2
    /\ \A k \in 1..2 : myPairer.cells[k].dist2border # NoDistance
    /\ Len(df.data["centID_i"]) = 2

----------------------------------------------------------------------------
(* The method path and the free-function path, called on the same parsed   *)
(* export: getAllTracks on a pairer whose spots are read, findTrackInfo and *)
(* linkID on the pairer after getAllTracks.                                *)

\* The exports: tracks over [0,3) or [3,4), whole or without frame 1.
PathXmls == xmlsOver({<<0, 3>>, <<3, 4>>}, {{}, {1}})

\* The arguments: bounds given, every minOverlap.
PathArgs ==
    {a \in Args : a.maxdist = 25 /\ a.mindist = 14 /\ a.dim # NoDim}

\* The lists of at most 2 ids among ids.
idLists(ids) == UNION {[1..n -> ids] : n \in 0..2}

\* The calls on pairer p and export x.
pathCalls(p, x) ==
    LET kept == {p.allTracks[k].id : k \in 1..Len(p.allTracks)}
    IN [fn : {"getAllTracks"}, row : {1}, trackIDList : {<<>>}]
       \cup [fn : {"findTrackInfo"}, row : 1..Len(x.track_general), trackIDList : {<<>>}]
       \cup [fn : {"linkID"}, row : {1}, trackIDList : idLists(kept)]

InitPaths ==
    /\ pc = "call"
    /\ args \in PathArgs
    /\ xml \in PathXmls
    /\ movie = MovieBox
    /\ myPairer = loaded(args, xml, movie)
    /\ call \in pathCalls(myPairer, xml)
    /\ ret = None
    /\ f = <<>>
    /\ row = 0
    /\ i = 0
    /\ j = 0
    /\ err = "none"
    /\ df = None

\* Both versions of getAllTracks: the method on the pairer before its tracks are
\* read, the free function on the same export and spots.
Call_getAllTracks ==
    /\ pc = "call"
    /\ call.fn = "getAllTracks"
    /\ ret' = [method |-> <<loaded(args, xml, movie).allTracks,
                            loaded(args, xml, movie).allEdges>>,
               free |-> free_getAllTracks(xml, myPairer.allSpots)]
    /\ pc' = "returned"
    /\ UNCHANGED <<args, xml, movie, myPairer, f, row, i, j, err, call, df>>

\* Both versions of findTrackInfo, on the track of one row of the export.
Call_findTrackInfo ==
    /\ pc = "call"
    /\ call.fn = "findTrackInfo"
    /\ LET r == xml.track_general[call.row]
           myTrack == [id |-> r.TRACK_ID, x |-> r.TRACK_X_LOCATION,
                       y |-> r.TRACK_Y_LOCATION, z |-> r.TRACK_Z_LOCATION,
                       t_i |-> r.TRACK_START, t_f |-> r.TRACK_STOP,
                       duration |-> r.TRACK_DURATION]
       IN ret' = [method |-> findTrackInfo(myPairer, myTrack),
                  free |-> free_findTrackInfo(myTrack, myPairer.allEdges,
                                              myPairer.allSpots)]
    /\ pc' = "returned"
    /\ UNCHANGED <<args, xml, movie, myPairer, f, row, i, j, err, call, df>>

\* Both versions of linkID, on a list of ids of the pairer's tracks.
Call_linkID ==
    /\ pc = "call"
    /\ call.fn = "linkID"
    /\ ret' = [method |-> linkID(myPairer, call.trackIDList),
               free |-> free_linkID(call.trackIDList, myPairer.allTracks,
                                    myPairer.allEdges)]
    /\ pc' = "returned"
    /\ UNCHANGED <<args, xml, movie, myPairer, f, row, i, j, err, call, df>>

NextPaths ==
    \/ Call_getAllTracks
    \/ Call_findTrackInfo
    \/ Call_linkID

SpecPaths == InitPaths /\ [][NextPaths]_vars

\* C19, as claimed: on the same parsed export the method and the free function
\* getAllTracks give the same tracks with the same attributes and the same
\* time->spot maps, and the two versions of findTrackInfo and of linkID return
\* the same.
C19_PathsEquivalent ==
    pc = "returned" => ret.method = ret.free

\* The tracks of the sequence ts that the pairer's two filters let through.
passing(ts) ==
    LET keep(t) ==
            /\ distance2border(t.x, t.y, myPairer.top, myPairer.bottom, myPairer.left,
                               myPairer.right) > 0
            /\ t.duration >= myPairer.min_overlap
    IN SelectSeq(ts, keep)

\* C19, amended: the free getAllTracks returns a track for every row of the
\* export, the method only those of them that pass the border filter and the
\* duration filter, with the same attributes and in the same order, and both give
\* the same time->spot maps; the two versions of findTrackInfo and of linkID
\* return the same.
C19_MethodFiltersFreeDoesNot ==
    pc = "returned" =>
        IF call.fn = "getAllTracks"
        THEN /\ ret.method[2] = ret.free[2]
             /\ [k \in 1..Len(ret.free[1]) |-> ret.free[1][k].id]
                   = [k \in 1..Len(xml.track_general) |-> xml.track_general[k].TRACK_ID]
             /\ ret.method[1] = passing(ret.free[1])
        ELSE ret.method = ret.free

\* The method left out one of two tracks that the free function returns.
C19_Witness ==
    /\ pc = "returned"
    /\ call.fn = "getAllTracks"
    /\ Len(ret.free[1]) = 2
    /\ Len(ret.method[1]) = 1
    /\ ret.method[1][1] = ret.free[1][2]

\* linkID on two tracks, one with a frame missing.
C19_LinkIDReached ==
    /\ pc = "returned"
    /\ call.fn = "linkID"
    /\ Len(call.trackIDList) = 2
    /\ ret.method[1] = (1 :> <<10, 12>>) @@ (2 :> <<20, 21, 22>>)
    /\ ret.free[2] = (10 :> 1) @@ (12 :> 1) @@ (20 :> 2) @@ (21 :> 2) @@ (22 :> 2)

----------------------------------------------------------------------------
(* The two orders of a pair.                                               *)

\* The attributes on which C20 has the two candidates of a pair agree.
sharedOf(c) ==
    <<c.t_overlap, c.sl_i, c.sl_f, c.sl_min, c.sl_max, c.t_cong, c.contrast,
      c.intensity, c.diameter>>

\* C20: in the list findNeighbors returns, a candidate for (A,B) is there if and
\* only if one for (B,A) is, and the two agree on t_overlap, sl_i, sl_f, sl_min,
\* sl_max, t_cong, contrast, intensity and diameter.
C20_Symmetric ==
    pc \in {"done", "features"} =>
        \A a, b \in trackIds :
            /\ cellsFor(a, b) # {} <=> cellsFor(b, a) # {}
            /\ \A k \in cellsFor(a, b) : \A m \in cellsFor(b, a) :
                  sharedOf(myPairer.cells[k]) = sharedOf(myPairer.cells[m])

\* Both orders of a pair of tracks that differ in contrast and in intensity: the
\* two candidates carry the tracks' average.
C20_Witness ==
    /\ pc = "done"
    /\ cellsFor(1, 2) # {}
    /\ cellsFor(2, 1) # {}
    /\ myPairer.allTracks[1].contrast # myPairer.allTracks[2].contrast
    /\ myPairer.allTracks[1].intensity # myPairer.allTracks[2].intensity
    /\ \A k \in cellsFor(1, 2) :
          /\ myPairer.cells[k].contrast # myPairer.allTracks[1].contrast
          /\ myPairer.cells[k].sl_i # myPairer.cells[k].sl_f

(* findNeighbors called again and again on one pairer, the export and the  *)
(* movie unchanged between the calls.                                      *)

\* The calls made on one pairer.
MaxCalls == 3

\* One iteration of the inner loop done on the pairer and console.txt, o being
\* what pairStep decided: [raised, self, f].
findNeighborsStep(self, log, o) ==
    [raised |-> o.kind = "raise",
     self |-> IF o.kind = "emit" THEN [self EXCEPT !.cells = Append(@, o.cell)] ELSE self,
     f |-> IF o.kind = "reject" THEN Append(log, o.line) ELSE log]

\* findNeighbors' two loops, lines 697-748, from myTrack number i0 and nbr
\* number j0 on: [raised, self, f] when they end or line 712 raises.
RECURSIVE findNeighborsLoop(_, _, _, _, _)
RECURSIVE findNeighborsNext(_, _, _, _)
findNeighborsLoop(self, log, framerate, i0, j0) ==
    IF i0 > Len(self.allTracks) THEN [raised |-> FALSE, self |-> self, f |-> log]
    ELSE findNeighborsNext(
             findNeighborsStep(self, log,
                               pairStep(self, self.allTracks[i0], self.allTracks[j0],
                                        framerate)),
             framerate, i0, j0)

\* After the iteration for (i0, j0) left s: the exception goes up, or the loops
\* go on with the next nbr, or the next myTrack.
findNeighborsNext(s, framerate, i0, j0) ==
    IF s.raised THEN s
    ELSE findNeighborsLoop(s.self, s.f, framerate,
                           IF j0 < Len(s.self.allTracks) THEN i0 ELSE i0 + 1,
                           IF j0 < Len(s.self.allTracks) THEN j0 + 1 ELSE 1)

\* findNeighbors lines 692-694 on self: <<self, f>> after getAllTracks.
findNeighborsRead(self, log, x, m) ==
    getAllTracksLoop(
        [readBounds([self EXCEPT !.allSpots = getAllSpots(self, x.spots)], m)
            EXCEPT !.allEdges = populateEdges(@, x.track_detail, 1)],
        log, x.track_general, 1)

\* findNeighbors lines 749-750 after the loops left l.
findNeighborsReturn(l) ==
    IF l.raised THEN l
    ELSE [l EXCEPT !.self.cells = cell_dist2border(l.self)]

\* The loops of findNeighbors on what getAllTracks left.
findNeighborsPairs(r, framerate) == findNeighborsLoop(r[1], r[2], framerate, 1, 1)

\* findNeighbors on a pairer whose candidate list is emptied first.
findNeighbors_cleared(self, log, x, m) ==
    findNeighborsReturn(
        findNeighborsPairs(findNeighborsRead([self EXCEPT !.cells = <<>>], log, x, m),
                           x.framerate))

\* findNeighbors, lines 690-750, on a readable movie: [raised, self, f]; when it
\* returns, the list returned is self.cells.
findNeighbors(self, log, x, m) ==
    findNeighborsReturn(findNeighborsPairs(findNeighborsRead(self, log, x, m),
                                           x.framerate))

AgainXmls == xmlsOver(Windows, {{}, {1}})

\* Wide distance thresholds; the bounds given or read from the movie; a
\* min_overlap of 0 lets line 712 raise on tracks that do not overlap.
AgainArgs ==
    {a \in Args : /\ a.maxdist = 25
                  /\ a.mindist = 14
                  /\ a.minoverlap \in {0, 2}
                  /\ a.dim \in {NoDim, <<0, 20, 0, 20>>}}

InitAgain ==
    /\ pc = "call"
    /\ args \in AgainArgs
    /\ xml \in AgainXmls
    /\ movie = MovieBox
    /\ myPairer = pairConstruct(args)
    /\ f = <<>>
    /\ row = 0
    /\ i = 0
    /\ j = 0
    /\ err = "none"
    /\ call = None
    /\ ret = <<>>
    /\ df = None

\* One more call of findNeighbors on the pairer; row counts the calls that
\* returned, ret is the list the last one returned.
Call_findNeighbors ==
    /\ pc = "call"
    /\ row < MaxCalls
    /\ LET r == findNeighbors(myPairer, f, xml, movie)
       IN /\ myPairer' = r.self
          /\ f' = r.f
          /\ IF r.raised
             THEN /\ pc' = "error"
                  /\ err' = "TypeError"
                  /\ UNCHANGED <<row, ret>>
             ELSE /\ pc' = "call"
                  /\ err' = err
                  /\ row' = row + 1
                  /\ ret' = r.self.cells
    /\ UNCHANGED <<args, xml, movie, i, j, call, df>>

SpecAgain == InitAgain /\ [][Call_findNeighbors]_vars

\* The candidates of a single run: findNeighbors on a pairer just constructed.
singleRun == findNeighbors(pairConstruct(args), <<>>, xml, movie)

\* How often the candidate c is in the list xs.
occurrences(xs, c) == Cardinality({k \in 1..Len(xs) : xs[k] = c})

RECURSIVE repeated(_, _)
repeated(xs, k) == IF k = 0 THEN <<>> ELSE xs \o repeated(xs, k - 1)

\* C21: findNeighbors appends to the pairer's stored list and never clears it:
\* the list the k-th call on the same pairer returns is the pairer's list, and it
\* holds every candidate of a single run exactly k times and nothing else.
C21_AppendsEachRun ==
    (pc = "call" /\ row > 0) =>
        LET single == singleRun.self.cells
        IN /\ ~singleRun.raised
           /\ ret = myPairer.cells
           /\ Len(ret) = row * Len(single)
           /\ \A k \in 1..Len(single) : occurrences(ret, single[k]) = row
           /\ ret = repeated(single, row)

\* The second call has returned on a pairer whose single run has candidates: the
\* list is twice as long as after the first call.
C21_Witness ==
    /\ pc = "call"
    /\ row = 2
    /\ Len(singleRun.self.cells) >= 2
    /\ Len(ret) = 2 * Len(singleRun.self.cells)

\* A call raises where the tracks do not overlap and min_overlap is 0.
C21_RaiseReached == pc = "error" /\ err = "TypeError" /\ row = 0

(* The loop of pred2SpotCSV (lines 792-794) and features2spots (lines      *)
(* 928-930) that removes the reversed pairs from allPairs while the for     *)
(* statement iterates over allPairs. The for statement holds a position in  *)
(* the list: it ends when the position is past the list's current end, and  *)
(* otherwise takes the item at the position and advances it by one.         *)

\* The longest list of pairs.
MaxPairs == 4

PairIds == 1..3

\* The lists of (centID_i, centID_j) the rows are read into, lines 780-786 and
\* 916-922.
PairLists == UNION {[1..n -> PairIds \X PairIds] : n \in 0..MaxPairs}

\* list.remove(x): the first item equal to x is taken out.
remove(xs, x) ==
    LET k == CHOOSE k \in 1..Len(xs) : xs[k] = x /\ \A m \in 1..(k - 1) : xs[m] # x
    IN [n \in 1..(Len(xs) - 1) |-> IF n < k THEN xs[n] ELSE xs[n + 1]]

\* x in xs
isIn(x, xs) == \E k \in 1..Len(xs) : xs[k] = x

\* The loop iterating over a copy of the list made before it starts.
RECURSIVE dedupCopyLoop(_, _, _)
dedupCopyLoop(allPairs, copy, it) ==
    IF it > Len(copy) THEN [allPairs |-> allPairs, visited |-> copy]
    ELSE LET ji == <<copy[it][2], copy[it][1]>>
         IN dedupCopyLoop(IF isIn(ji, allPairs) THEN remove(allPairs, ji) ELSE allPairs,
                          copy, it + 1)

dedup_overCopy(allPairs) == dedupCopyLoop(allPairs, allPairs, 1)

\* The loop from position it on (it counts from 1), visited the items taken so
\* far: [allPairs, visited] when the loop ends.
RECURSIVE dedupLoop(_, _, _)
dedupLoop(allPairs, it, visited) ==
    IF it > Len(allPairs) THEN [allPairs |-> allPairs, visited |-> visited]
    ELSE LET ij == allPairs[it]
             ji == <<ij[2], ij[1]>>
         IN dedupLoop(IF isIn(ji, allPairs) THEN remove(allPairs, ji) ELSE allPairs,
                      it + 1, Append(visited, ij))

\* for i, j in allPairs: if (j,i) in allPairs: allPairs.remove((j,i))
dedup(allPairs) == dedupLoop(allPairs, 1, <<>>)

InitDedup ==
    /\ pc = "call"
    /\ call \in [fn : {"pred2SpotCSV", "features2spots"}, allPairs : PairLists]
    /\ ret = None
    /\ args = None
    /\ xml = None
    /\ movie = None
    /\ myPairer = <<>>
    /\ f = <<>>
    /\ row = 0
    /\ i = 0
    /\ j = 0
    /\ err = "none"
    /\ df = None

\* pred2SpotCSV, lines 792-794, on the pairs of the rows predicted 1.
Call_pred2SpotCSV ==
    /\ pc = "call"
    /\ call.fn = "pred2SpotCSV"
    /\ ret' = dedup(call.allPairs)
    /\ pc' = "returned"
    /\ UNCHANGED <<args, xml, movie, myPairer, f, row, i, j, err, call, df>>

\* features2spots, lines 928-930, on the pairs of all the rows.
Call_features2spots ==
    /\ pc = "call"
    /\ call.fn = "features2spots"
    /\ ret' = dedup(call.allPairs)
    /\ pc' = "returned"
    /\ UNCHANGED <<args, xml, movie, myPairer, f, row, i, j, err, call, df>>

NextDedup ==
    \/ Call_pred2SpotCSV
    \/ Call_features2spots

SpecDedup == InitDedup /\ [][NextDedup]_vars

\* No pair twice in the list, and no pair of a track with itself.
duplicateFree(xs) ==
    /\ \A k, m \in 1..Len(xs) : xs[k] = xs[m] => k = m
    /\ \A k \in 1..Len(xs) : xs[k][1] # xs[k][2]

\* The items of xs at the positions in S, in the order of xs.
RECURSIVE itemsAt(_, _, _)
itemsAt(xs, S, k) ==
    IF k > Len(xs) THEN <<>>
    ELSE (IF k \in S THEN <<xs[k]>> ELSE <<>>) \o itemsAt(xs, S, k + 1)

\* The positions of xs whose pair is not the reverse of an earlier item.
firstOrderings(xs) ==
    {k \in 1..Len(xs) : \A m \in 1..(k - 1) : xs[m] # <<xs[k][2], xs[k][1]>>}

dedupReturned == pc = "returned" /\ call.fn \in {"pred2SpotCSV", "features2spots"}

\* C22: on a duplicate-free list of pairs with i # j the loop ends with exactly
\* one ordering of each unordered pair of the input, the one that came first;
\* the kept pairs are in their input order; and the iteration took every kept
\* pair (none was skipped).
C22_FirstOrderingKept ==
    (dedupReturned /\ duplicateFree(call.allPairs)) =>
        LET xs == call.allPairs
            out == ret.allPairs
        IN /\ \A k \in 1..Len(xs) :
                 Cardinality({n \in 1..Len(out) :
                                 out[n] \in {xs[k], <<xs[k][2], xs[k][1]>>}}) = 1
           /\ \A n \in 1..Len(out) : isIn(out[n], xs)
           /\ out = itemsAt(xs, firstOrderings(xs), 1)
           /\ ret.visited = out

\* A duplicate-free list with both orderings of two pairs, the reversed ones not
\* next to the first ones: both reversed pairs are removed.
C22_Witness ==
    /\ dedupReturned
    /\ duplicateFree(call.allPairs)
    /\ Len(call.allPairs) = 4
    /\ call.allPairs[3] = <<call.allPairs[1][2], call.allPairs[1][1]>>
    /\ call.allPairs[4] = <<call.allPairs[2][2], call.allPairs[2][1]>>
    /\ ret.allPairs = <<call.allPairs[1], call.allPairs[2]>>

\* Outside C22's precondition: a pair (i,i) removes itself, the iteration skips
\* the item after it, and a first ordering is lost.
C22_SelfPairSkipsReached ==
    /\ dedupReturned
    /\ call.allPairs = <<<<1, 1>>, <<1, 2>>, <<2, 1>>>>
    /\ ret.allPairs = <<<<2, 1>>>>
    /\ ret.visited = <<<<1, 1>>, <<2, 1>>>>

\* Outside C22's precondition: with a pair twice in the list both orderings of
\* nothing but the repeated pair are left.
C22_DuplicateReached ==
    /\ dedupReturned
    /\ call.allPairs = <<<<1, 2>>, <<1, 2>>, <<2, 1>>>>
    /\ ret.allPairs = <<<<1, 2>>, <<1, 2>>>>

=============================================================================
